---- MODULE Spec2Model ----
(***************************************************************************)
(* Session lifecycle, cancellation and datafeed marshalling of the sigrok  *)
(* binding (sigrok/src/session.rs), with the native library as the         *)
(* environment: every native call returns one of NativeCodes, and the      *)
(* native event loop delivers packets and the "stopped" notification only  *)
(* while the acquisition thread is inside a run loop.                      *)
(***************************************************************************)
EXTENDS Integers, Sequences, FiniteSets, TLC

\* ------------------------------------------------------------------ bounds
\* Longest packet feed of one acquisition run.
MaxPackets == 3
\* Most add_device calls before the run.
MaxAdds == 2
\* Most Driver::init calls on one context.
MaxInits == 4
\* Most stages of a trigger, and most matches of a stage.
MaxStages == 2
MaxMatches == 2
\* Largest magnitude of the status codes translated, the i32 ends apart.
MaxCode == 30
\* Most config_set and config_get calls on one device.
MaxOps == 2
\* Longest string value set.
MaxStrLen == 2
\* Most keys of one option enumeration.
MaxKeys == 2
\* Longest array of a sample rate listing.
MaxRates == 3
\* Largest whole seconds, and largest of the small microsecond counts, of a
\* header's timestamp.
MaxSecs == 3
MaxUsec == 20

\* Device instances a driver scan produced.
Devices == {"dev1", "dev2"}
\* Status codes the native calls of the model answer with.
NativeCodes == {"SR_OK", "SR_ERR", "SR_ERR_ARG"}
\* The driver an instance reports (sr_dev_inst_driver_get); every Device of the
\* binding carries its DriverContext, so instances of the session have one.
NullPtr == "null"
InstDrivers == {"demo"}
\* Packet kind tags of the native feed; SR_DF_OTHER stands for any tag the
\* binding does not know.
PacketKinds ==
    {"SR_DF_HEADER", "SR_DF_END", "SR_DF_META", "SR_DF_TRIGGER", "SR_DF_LOGIC",
     "SR_DF_FRAME_BEGIN", "SR_DF_FRAME_END", "SR_DF_ANALOG", "SR_DF_OTHER"}

\* ------------------------------------------------------- error translation
\* SigrokError::from: a native status code to Ok or an error kind.
SigrokError_from(code) ==
    CASE code = "SR_OK" -> "Ok"
      [] code = "SR_ERR" -> "Err"
      [] code = "SR_ERR_MALLOC" -> "Malloc"
      [] code = "SR_ERR_ARG" -> "Arg"
      [] code = "SR_ERR_BUG" -> "Bug"
      [] code = "SR_ERR_SAMPLERATE" -> "SampleRate"
      [] code = "SR_ERR_NA" -> "NA"
      [] code = "SR_ERR_DEV_CLOSED" -> "DevClosed"
      [] code = "SR_ERR_TIMEOUT" -> "Timeout"
      [] code = "SR_ERR_CHANNEL_GROUP" -> "ChannelGroup"
      [] code = "SR_ERR_DATA" -> "Data"
      [] code = "SR_ERR_IO" -> "IO"
      [] OTHER -> "Unknown"

VARIABLES
    sess,          \* the Session: "live", "destroyed", "panicked"
    devOpen,       \* native: the instances whose status is active (open)
    attached,      \* native: instances attached to the session, in order
    adds,          \* add_device calls so far
    lastAdd,       \* what the last add_device call saw and answered
    mode,          \* entry point of the run: "none", "start", "cancel"
    pc,            \* position of the acquisition thread
    result,        \* what the entry point returned
    dataLive,      \* the run's stack-local SessionData is alive
    datafeedReg,   \* native: a datafeed callback registration pointing at it
    stoppedCb,     \* native: the stopped-callback ("unset", "null", "quit_loop")
    acq,           \* native: "idle", "running", "ended", "stopped"
    stopRequested, \* native: sr_session_stop was called
    calls,         \* native calls and notifications of the run, in order
    delivered,     \* packets the native dispatcher handed to the marshaller
    events,        \* events the user callback received
    feedPanic,     \* the marshaller panicked
    cancelTx,      \* cancellation sender: "none", "held", "sent", "dropped"
    cancelVal,     \* a cancellation value is enqueued
    cancelRx,      \* the cancellation receiver is alive
    sendResult,    \* what Sender::send answered, and where the run was then
    endSlot,       \* end_sender: "none", "some", "taken", "dropped"
    endVal,        \* the completion value is enqueued
    task,          \* the spawned task: "none", "select", "await_end", "done"
    taskBranch,    \* which arm of select_biased! ran
    loopQuit,      \* main_loop.quit() was called
    stopCalls,     \* sr_session_stop calls the task issued
    sigrok,        \* the Sigrok context: "live", "destroyed"
    drvContext,    \* native: each driver's context field, the initialized mark
    drvLive,       \* DriverContext values alive, per driver
    drvCalls,      \* native driver calls so far, in order
    inits,         \* Driver::init calls so far
    lastInit,      \* what the last Driver::init call saw and answered
    trigIn,        \* the stages a caller hands to Triggers::new
    trigPtr,       \* native: what sr_trigger_new answers
    trigPc,        \* "init", "built", "set", "aborted", "dropped"
    trigNew,       \* what Triggers::new did and answered
    trigInstall,   \* what Session::set_triggers was given, passed on and answered
    trigFreed,     \* native calls made by dropping the Triggers value
    errCode,       \* a native status code, as the i32 it is
    errResult,     \* what SigrokError::from made of it
    cfgStored,     \* the value the device was last configured with
    cfgVariant,    \* native: the GVariant the device holds for the configured key
    cfgOps,        \* config_set and config_get calls so far
    cfgLast,       \* what the last config_set or config_get did and answered
    optArr,        \* native: what sr_dev_options answers, with each key's list call
    optResult,     \* what config_options answered
    rateIn,        \* native: what the device answers about its sample rates
    rateOut,       \* the sample rate descriptor decoded from it
    hdrIn,         \* native: the starttime of a header packet (a struct timeval)
    hdrOut,        \* the start_time the marshaller made of it
    panicked       \* the panic that ended the process, NoPanic while it runs

vars ==
    <<sess, devOpen, attached, adds, lastAdd, mode, pc, result, dataLive,
      datafeedReg, stoppedCb, acq, stopRequested, calls, delivered, events,
      feedPanic, cancelTx, cancelVal, cancelRx, sendResult, endSlot, endVal, task,
      taskBranch, loopQuit, stopCalls, sigrok, drvContext, drvLive, drvCalls,
      inits, lastInit, trigIn, trigPtr, trigPc, trigNew, trigInstall, trigFreed,
      errCode, errResult, cfgStored, cfgVariant, cfgOps, cfgLast, optArr, optResult, rateIn,
      rateOut, hdrIn, hdrOut, panicked>>

addVars == <<devOpen, attached, adds, lastAdd>>
feedVars == <<delivered, events, feedPanic>>
cancelVars == <<cancelTx, cancelVal, cancelRx, sendResult>>
taskVars == <<endSlot, endVal, task, taskBranch, loopQuit, stopCalls>>
nativeVars == <<datafeedReg, stoppedCb, acq, stopRequested>>
\* Everything of one session and its run.
vars_session ==
    <<sess, mode, pc, result, dataLive, calls, addVars, feedVars, cancelVars,
      taskVars, nativeVars>>
driverVars == <<sigrok, drvContext, drvLive, drvCalls, inits, lastInit>>
\* What lives outside the session: the context, its drivers, the panic state.
trigVars == <<trigIn, trigPtr, trigPc, trigNew, trigInstall, trigFreed>>
errVars == <<errCode, errResult>>
cfgVars == <<cfgStored, cfgVariant, cfgOps, cfgLast>>
optVars == <<optArr, optResult>>
rateVars == <<rateIn, rateOut>>
hdrVars == <<hdrIn, hdrOut>>
\* Status translation, device configuration and payload conversion.
convVars == <<errVars, cfgVars, optVars, rateVars, hdrVars>>
libVars == <<driverVars, trigVars, convVars, panicked>>

NoAdd ==
    [dev |-> "none", wasOpen |-> FALSE, openRc |-> "none", attach |-> FALSE,
     addRc |-> "none", result |-> "none"]
NoSend == [res |-> "none", pc |-> "none", acq |-> "none"]

\* One entry of the run's log: a native call with the status it answered, or a
\* notification ("-").
Call(name, rc) == [call |-> name, rc |-> rc]

\* The drivers sr_driver_list reports, and their long names.
Drivers == {"demo", "fx2lafw"}
Driver_name(d) == d
Driver_long_name(d) ==
    IF d = "demo" THEN "Demo driver and pattern generator" ELSE "fx2lafw (generic driver)"

\* Every driver of the list has a cleanup function.
Driver_cleanup(d) == "cleanup"

NoInit == [drv |-> "none", liveBefore |-> 0, native |-> FALSE, result |-> "none"]
NoPanic == [site |-> "none", msg |-> <<>>]

\* A fresh context: no driver initialized, nothing called yet.
DriverIdle ==
    /\ sigrok = "live"
    /\ drvContext = [d \in Drivers |-> NullPtr]
    /\ drvLive = [d \in Drivers |-> 0]
    /\ drvCalls = <<>>
    /\ inits = 0
    /\ lastInit = NoInit

\* The context after ctx.drivers() ... init() of the driver whose devices the
\* session runs: that driver initialized once, its DriverContext alive.
DriverReady ==
    /\ sigrok = "live"
    /\ drvContext = [d \in Drivers |-> IF d = "demo" THEN "drv_context" ELSE NullPtr]
    /\ drvLive = [d \in Drivers |-> IF d = "demo" THEN 1 ELSE 0]
    /\ drvCalls = <<[call |-> "sr_driver_init", drv |-> "demo", rc |-> "SR_OK"]>>
    /\ inits = 1
    /\ lastInit = [drv |-> "demo", liveBefore |-> 0, native |-> TRUE, result |-> "Ok"]

NoTriggers == [result |-> "none", value |-> "none", native |-> <<>>, calls |-> <<>>]
NoInstall == [opt |-> "none", arg |-> "none", rc |-> "none", result |-> "none"]

\* No Triggers value built or installed yet.
TriggersIdle ==
    /\ trigPc = "init"
    /\ trigNew = NoTriggers
    /\ trigInstall = NoInstall
    /\ trigFreed = <<>>

\* No value: what a device not yet configured holds, what a failed get yields.
NoValue == [type |-> "none", value |-> <<>>]
\* No GVariant: the device was not configured yet.
NoVariant == [key |-> "none", type |-> "none", value |-> <<>>]
NoConfig == [op |-> "none", type |-> "none", value |-> <<>>, shape |-> "none",
             native |-> FALSE, rc |-> "none", result |-> "none", got |-> NoValue,
             before |-> NoValue]

NoOptions == [result |-> "none", list |-> <<>>]
\* An sr_dev_options answer with no key in it.
EmptyArray == [ptr |-> "garray", keys |-> <<>>]

\* An array entry of a sample rate dictionary: absent, or the u64 values held.
AbsentEntry == [present |-> FALSE, values |-> <<>>]
\* A device without the LIST capability for its sample rate.
NoRates ==
    [list |-> FALSE, rc |-> "SR_ERR",
     container |-> [kind |-> "null", samplerates |-> AbsentEntry, steps |-> AbsentEntry]]
NoRate == [some |-> FALSE, kind |-> "none", values |-> <<>>]

\* The timestamp of the epoch, and no start_time made yet.
ZeroTime == [tv_sec |-> 0, tv_usec |-> 0]
NoTime == [panic |-> FALSE, secs |-> -1, nanos |-> -1]

\* Nothing translated, configured or listed yet.
ConfigIdle ==
    /\ errResult = "none"
    /\ hdrOut = NoTime
    /\ rateOut = NoRate
    /\ cfgStored = NoValue
    /\ cfgVariant = NoVariant
    /\ cfgOps = 0
    /\ cfgLast = NoConfig
    /\ optResult = NoOptions

\* A fresh session that has run nothing.
SessionIdle ==
    /\ sess = "live"
    /\ devOpen = {}
    /\ attached = <<>>
    /\ adds = 0
    /\ lastAdd = NoAdd
    /\ mode = "none"
    /\ pc = "idle"
    /\ result = "none"
    /\ dataLive = FALSE
    /\ datafeedReg = FALSE
    /\ stoppedCb = "unset"
    /\ acq = "idle"
    /\ stopRequested = FALSE
    /\ calls = <<>>
    /\ delivered = <<>>
    /\ events = <<>>
    /\ feedPanic = FALSE
    /\ cancelTx = "none"
    /\ cancelVal = FALSE
    /\ cancelRx = FALSE
    /\ sendResult = NoSend
    /\ endSlot = "none"
    /\ endVal = FALSE
    /\ task = "none"
    /\ taskBranch = "none"
    /\ loopQuit = FALSE
    /\ stopCalls = 0

Init ==
    /\ SessionIdle
    /\ DriverIdle
    /\ TriggersIdle
    /\ trigIn = <<>>
    /\ trigPtr = "sr_trigger"
    /\ ConfigIdle
    /\ errCode = 0
    /\ optArr = EmptyArray
    /\ rateIn = NoRates
    /\ hdrIn = ZeroTime
    /\ panicked = NoPanic

\* A session on the devices of an initialized driver, before its run.
InitRun ==
    /\ SessionIdle
    /\ DriverReady
    /\ TriggersIdle
    /\ trigIn = <<>>
    /\ trigPtr = "sr_trigger"
    /\ ConfigIdle
    /\ errCode = 0
    /\ optArr = EmptyArray
    /\ rateIn = NoRates
    /\ hdrIn = ZeroTime
    /\ panicked = NoPanic

\* ---------------------------------------------------------------- add_device
\* What sr_dev_open may answer: SR_ERR for an instance that is already active
\* (no re-opening is attempted), otherwise success or any failure code, SR_ERR
\* being the generic one.
OpenCodes(d) == IF d \in devOpen THEN {"SR_ERR"} ELSE NativeCodes

\* Session::add_device: the match on the open result, then the attach.
add_device(openRc, addRc) ==
    LET opened == SigrokError_from(openRc) IN
    IF opened = "Ok" \/ opened = "Err"
    THEN [attach |-> TRUE, result |-> SigrokError_from(addRc)]
    ELSE [attach |-> FALSE, result |-> opened]

AddDevice ==
    /\ pc = "idle"
    /\ sess = "live"
    /\ adds < MaxAdds
    /\ \E d \in Devices, openRc \in NativeCodes, addRc \in NativeCodes :
        /\ openRc \in OpenCodes(d)
        /\ LET r == add_device(openRc, addRc) IN
            /\ devOpen' = IF openRc = "SR_OK" THEN devOpen \cup {d} ELSE devOpen
            /\ attached' =
                IF r.attach /\ addRc = "SR_OK" THEN Append(attached, d) ELSE attached
            /\ lastAdd' =
                [dev |-> d, wasOpen |-> d \in devOpen, openRc |-> openRc,
                 attach |-> r.attach, addRc |-> IF r.attach THEN addRc ELSE "none",
                 result |-> r.result]
    /\ adds' = adds + 1
    /\ UNCHANGED <<sess, mode, pc, result, dataLive, calls>>
    /\ UNCHANGED <<nativeVars, feedVars, cancelVars, taskVars>>
    /\ UNCHANGED libVars

\* ------------------------------------------------------- datafeed marshaller
\* One event handed to the user callback; id stands for the packet's payload.
Event(name, pkt) == [ev |-> name, id |-> pkt.id]

\* Mutant: the Trigger arm tests for the End kind a second time, so a Trigger
\* packet reaches no arm.
sr_session_callback_no_trigger(pkt) ==
    IF pkt.driver = NullPtr
    THEN [panic |-> TRUE, cb |-> <<>>]
    ELSE [panic |-> FALSE,
          cb |->
            IF pkt.kind = "SR_DF_HEADER" THEN <<Event("Header", pkt)>>
            ELSE IF pkt.kind = "SR_DF_LOGIC" THEN <<Event("Logic", pkt)>>
            ELSE IF pkt.kind = "SR_DF_ANALOG" THEN <<Event("Analog", pkt)>>
            ELSE IF pkt.kind = "SR_DF_END" THEN <<Event("End", pkt)>>
            ELSE IF pkt.kind = "SR_DF_META" THEN <<>>
            ELSE IF pkt.kind = "SR_DF_FRAME_BEGIN" THEN <<Event("FrameBegin", pkt)>>
            ELSE IF pkt.kind = "SR_DF_FRAME_END" THEN <<Event("FrameEnd", pkt)>>
            ELSE <<>>]

\* Mutant: the last arm is a plain else, so every other kind is a FrameEnd.
sr_session_callback_else_frame_end(pkt) ==
    IF pkt.driver = NullPtr
    THEN [panic |-> TRUE, cb |-> <<>>]
    ELSE [panic |-> FALSE,
          cb |->
            IF pkt.kind = "SR_DF_HEADER" THEN <<Event("Header", pkt)>>
            ELSE IF pkt.kind = "SR_DF_LOGIC" THEN <<Event("Logic", pkt)>>
            ELSE IF pkt.kind = "SR_DF_ANALOG" THEN <<Event("Analog", pkt)>>
            ELSE IF pkt.kind = "SR_DF_END" THEN <<Event("End", pkt)>>
            ELSE IF pkt.kind = "SR_DF_META" THEN <<>>
            ELSE IF pkt.kind = "SR_DF_TRIGGER" THEN <<Event("Trigger", pkt)>>
            ELSE IF pkt.kind = "SR_DF_FRAME_BEGIN" THEN <<Event("FrameBegin", pkt)>>
            ELSE <<Event("FrameEnd", pkt)>>]

\* Mutant: the view is an ordinary DriverContext, dropped when the callback
\* returns: the driver's cleanup runs and the context field is nulled.
ManuallyDrop_driver_context_dropped(mark, cleanup) ==
    [cleanup |-> cleanup # NullPtr, mark |-> NullPtr]

\* The driver_context of sr_session_callback, a DriverContext made from the
\* instance's driver and wrapped in ManuallyDrop: going out of scope it runs
\* no destructor, so no cleanup is called and the context field stays.
ManuallyDrop_driver_context(mark, cleanup) ==
    [cleanup |-> FALSE, mark |-> mark]

\* sr_session_callback: the events one packet makes the user callback receive,
\* in the order of the if-chain; a packet whose instance has no driver panics
\* before any dispatch.
sr_session_callback(pkt) ==
    IF pkt.driver = NullPtr
    THEN [panic |-> TRUE, cb |-> <<>>]
    ELSE [panic |-> FALSE,
          cb |->
            IF pkt.kind = "SR_DF_HEADER" THEN <<Event("Header", pkt)>>
            ELSE IF pkt.kind = "SR_DF_LOGIC" THEN <<Event("Logic", pkt)>>
            ELSE IF pkt.kind = "SR_DF_ANALOG" THEN <<Event("Analog", pkt)>>
            ELSE IF pkt.kind = "SR_DF_END" THEN <<Event("End", pkt)>>
            ELSE IF pkt.kind = "SR_DF_META" THEN <<>>
            ELSE IF pkt.kind = "SR_DF_TRIGGER" THEN <<Event("Trigger", pkt)>>
            ELSE IF pkt.kind = "SR_DF_FRAME_BEGIN" THEN <<Event("FrameBegin", pkt)>>
            ELSE IF pkt.kind = "SR_DF_FRAME_END" THEN <<Event("FrameEnd", pkt)>>
            ELSE <<>>]

\* The acquisition thread is inside a run loop that dispatches native events:
\* sr_session_run of start, main_loop.run() of start_with_cancel.
InRunLoop == pc \in {"s_running", "c_running"}

\* The native dispatcher hands one packet of the running acquisition to the
\* registered datafeed callback; the End packet ends the acquisition. A callback
\* of the blocking start may call Session::stop from inside.
NativePacket ==
    /\ InRunLoop
    /\ acq = "running"
    /\ datafeedReg
    /\ ~feedPanic
    /\ Len(delivered) < MaxPackets
    /\ \E k \in PacketKinds, drv \in InstDrivers, callStop \in BOOLEAN :
        LET pkt == [kind |-> k, id |-> Len(delivered) + 1, driver |-> drv]
            out == sr_session_callback(pkt)
            stops == callStop /\ mode = "start" /\ out.cb # <<>>
            view == ManuallyDrop_driver_context(drvContext[drv], Driver_cleanup(drv))
        IN  /\ delivered' = Append(delivered, pkt)
            /\ drvContext' = [drvContext EXCEPT ![drv] = view.mark]
            /\ drvCalls' =
                IF view.cleanup
                THEN Append(drvCalls, [call |-> "cleanup", drv |-> drv, rc |-> "-"])
                ELSE drvCalls
            /\ events' = events \o out.cb
            /\ feedPanic' = (feedPanic \/ out.panic)
            /\ acq' = IF k = "SR_DF_END" THEN "ended" ELSE acq
            /\ stopRequested' = (stopRequested \/ stops)
            /\ calls' = IF stops THEN Append(calls, Call("sr_session_stop", "-")) ELSE calls
    /\ UNCHANGED <<sess, mode, pc, result, dataLive, datafeedReg, stoppedCb>>
    /\ UNCHANGED <<addVars, cancelVars, taskVars>>
    /\ UNCHANGED <<sigrok, drvLive, inits, lastInit, trigVars, convVars, panicked>>

\* The native layer honours a stop request: the acquisition ends.
NativeFinish ==
    /\ InRunLoop
    /\ acq = "running"
    /\ stopRequested
    /\ acq' = "ended"
    /\ UNCHANGED <<sess, mode, pc, result, dataLive, datafeedReg, stoppedCb,
                   stopRequested, calls>>
    /\ UNCHANGED <<addVars, feedVars, cancelVars, taskVars>>
    /\ UNCHANGED libVars

\* quit_loop: take the sender out of the slot and send the completion value.
quit_loop(slot, val) ==
    IF slot = "some"
    THEN [slot |-> "taken", val |-> TRUE]
    ELSE [slot |-> slot, val |-> val]

\* The native layer reports "acquisition stopped": it calls the stopped-callback
\* that is set, if any.
NativeStopped ==
    /\ InRunLoop
    /\ acq = "ended"
    /\ acq' = "stopped"
    /\ calls' = Append(calls, Call("stopped", "-"))
    /\ IF stoppedCb = "quit_loop"
       THEN LET q == quit_loop(endSlot, endVal) IN
            /\ endSlot' = q.slot
            /\ endVal' = q.val
       ELSE UNCHANGED <<endSlot, endVal>>
    /\ UNCHANGED <<sess, mode, pc, result, dataLive, datafeedReg, stoppedCb,
                   stopRequested, task, taskBranch, loopQuit, stopCalls>>
    /\ UNCHANGED <<addVars, feedVars, cancelVars>>
    /\ UNCHANGED libVars

\* --------------------------------------------------------------------- start
\* What dropping the locals of a returning start_with_cancel does to the
\* completion sender: a sender still in its slot is dropped unsent.
DropEndSender(slot) == IF slot = "some" THEN "dropped" ELSE slot

\* Mutant: acquisition is started before the stopped-callback is cleared.
StartNextPc_start_before_clear(p) ==
    CASE p = "idle" -> "s_add"
      [] p = "s_add" -> "s_start"
      [] p = "s_start" -> "s_stopped_set"
      [] p = "s_stopped_set" -> "s_run"
      [] p = "s_run" -> "s_running"
      [] p = "s_running" -> "s_remove"
      [] p = "s_remove" -> "returned"

\* Session::start, statement by statement: where a step that succeeded goes.
StartNextPc(p) ==
    CASE p = "idle" -> "s_add"
      [] p = "s_add" -> "s_stopped_set"
      [] p = "s_stopped_set" -> "s_start"
      [] p = "s_start" -> "s_run"
      [] p = "s_run" -> "s_running"
      [] p = "s_running" -> "s_remove"
      [] p = "s_remove" -> "returned"

\* A native call of the run answered rc: the `?` returns its error at once, the
\* stack-local SessionData dying with the frame.
StepOutcome(name, rc, next) ==
    /\ calls' = Append(calls, Call(name, rc))
    /\ IF SigrokError_from(rc) = "Ok"
       THEN /\ pc' = next
            /\ result' = IF next = "returned" THEN "Ok" ELSE result
            /\ dataLive' = (next # "returned")
       ELSE /\ pc' = "returned"
            /\ result' = SigrokError_from(rc)
            /\ dataLive' = FALSE

\* self.set_triggers(triggers)?, then the SessionData is built.
StartSetTriggers ==
    /\ pc = "idle"
    /\ sess = "live"
    /\ mode' = "start"
    /\ \E rc \in NativeCodes : StepOutcome("sr_session_trigger_set", rc, StartNextPc(pc))
    /\ UNCHANGED <<sess>>
    /\ UNCHANGED <<addVars, nativeVars, feedVars, cancelVars, taskVars>>
    /\ UNCHANGED libVars

\* sr_session_datafeed_callback_add(ctx, sr_session_callback, &mut data)?
StartCallbackAdd ==
    /\ pc = "s_add"
    /\ \E rc \in NativeCodes :
        /\ StepOutcome("sr_session_datafeed_callback_add", rc, StartNextPc(pc))
        /\ datafeedReg' = (datafeedReg \/ rc = "SR_OK")
    /\ UNCHANGED <<sess, mode, stoppedCb, acq, stopRequested>>
    /\ UNCHANGED <<addVars, feedVars, cancelVars, taskVars>>
    /\ UNCHANGED libVars

\* sr_session_stopped_callback_set(ctx, None, null)?
StartStoppedClear ==
    /\ pc = "s_stopped_set"
    /\ \E rc \in NativeCodes :
        /\ StepOutcome("sr_session_stopped_callback_set", rc, StartNextPc(pc))
        /\ stoppedCb' = IF rc = "SR_OK" THEN "null" ELSE stoppedCb
    /\ UNCHANGED <<sess, mode, datafeedReg, acq, stopRequested>>
    /\ UNCHANGED <<addVars, feedVars, cancelVars, taskVars>>
    /\ UNCHANGED libVars

\* sr_session_start(ctx)?
StartSessionStart ==
    /\ pc = "s_start"
    /\ \E rc \in NativeCodes :
        /\ StepOutcome("sr_session_start", rc, StartNextPc(pc))
        /\ acq' = IF rc = "SR_OK" THEN "running" ELSE acq
    /\ UNCHANGED <<sess, mode, datafeedReg, stoppedCb, stopRequested>>
    /\ UNCHANGED <<addVars, feedVars, cancelVars, taskVars>>
    /\ UNCHANGED libVars

\* sr_session_run(ctx) is entered: the thread blocks in the native loop.
StartRun ==
    /\ pc = "s_run"
    /\ calls' = Append(calls, Call("sr_session_run", "-"))
    /\ pc' = StartNextPc(pc)
    /\ UNCHANGED <<sess, mode, result, dataLive>>
    /\ UNCHANGED <<addVars, nativeVars, feedVars, cancelVars, taskVars>>
    /\ UNCHANGED libVars

\* sr_session_run(ctx)? returns: with success once the acquisition has stopped,
\* with an error whenever the native layer gives the run up.
StartRunReturn ==
    /\ pc = "s_running"
    /\ \E rc \in NativeCodes :
        /\ rc = "SR_OK" => acq = "stopped"
        /\ StepOutcome("run_returned", rc, StartNextPc(pc))
    /\ UNCHANGED <<sess, mode>>
    /\ UNCHANGED <<addVars, nativeVars, feedVars, cancelVars, taskVars>>
    /\ UNCHANGED libVars

\* sr_session_datafeed_callback_remove_all(ctx) is the value of start.
StartRemoveAll ==
    /\ pc = "s_remove"
    /\ \E rc \in NativeCodes :
        /\ StepOutcome("sr_session_datafeed_callback_remove_all", rc, StartNextPc(pc))
        /\ datafeedReg' = (datafeedReg /\ rc # "SR_OK")
    /\ UNCHANGED <<sess, mode, stoppedCb, acq, stopRequested>>
    /\ UNCHANGED <<addVars, feedVars, cancelVars, taskVars>>
    /\ UNCHANGED libVars

\* --------------------------------------------------------- start_with_cancel
\* Session::start_with_cancel, statement by statement.
CancelNextPc(p) ==
    CASE p = "idle" -> "c_add"
      [] p = "c_add" -> "c_start"
      [] p = "c_start" -> "c_acquire"
      [] p = "c_acquire" -> "c_channel"
      [] p = "c_channel" -> "c_spawn"
      [] p = "c_spawn" -> "c_stopped_set"
      [] p = "c_stopped_set" -> "c_running"
      [] p = "c_running" -> "c_remove"
      [] p = "c_remove" -> "returned"

\* self.set_triggers(triggers)?, then the SessionData is built.
CancelSetTriggers ==
    /\ pc = "idle"
    /\ sess = "live"
    /\ mode' = "cancel"
    /\ \E rc \in NativeCodes : StepOutcome("sr_session_trigger_set", rc, CancelNextPc(pc))
    /\ UNCHANGED <<sess>>
    /\ UNCHANGED <<addVars, nativeVars, feedVars, cancelVars, taskVars>>
    /\ UNCHANGED libVars

\* sr_session_datafeed_callback_add(ctx, sr_session_callback, &mut data)?
CancelCallbackAdd ==
    /\ pc = "c_add"
    /\ \E rc \in NativeCodes :
        /\ StepOutcome("sr_session_datafeed_callback_add", rc, CancelNextPc(pc))
        /\ datafeedReg' = (datafeedReg \/ rc = "SR_OK")
    /\ UNCHANGED <<sess, mode, stoppedCb, acq, stopRequested>>
    /\ UNCHANGED <<addVars, feedVars, cancelVars, taskVars>>
    /\ UNCHANGED libVars

\* sr_session_start(ctx)?
CancelSessionStart ==
    /\ pc = "c_start"
    /\ \E rc \in NativeCodes :
        /\ StepOutcome("sr_session_start", rc, CancelNextPc(pc))
        /\ acq' = IF rc = "SR_OK" THEN "running" ELSE acq
    /\ UNCHANGED <<sess, mode, datafeedReg, stoppedCb, stopRequested>>
    /\ UNCHANGED <<addVars, feedVars, cancelVars, taskVars>>
    /\ UNCHANGED libVars

\* The completion channel and the main loop are made, then
\* main_context.acquire(): a refusal returns GlibAcquireError and drops them.
CancelAcquire ==
    /\ pc = "c_acquire"
    /\ \E acquired \in BOOLEAN :
        IF acquired
        THEN /\ pc' = CancelNextPc(pc)
             /\ endSlot' = "some"
             /\ UNCHANGED <<result, dataLive>>
        ELSE /\ pc' = "returned"
             /\ result' = "GlibAcquireError"
             /\ dataLive' = FALSE
             /\ endSlot' = DropEndSender("some")
    /\ calls' = Append(calls, Call("acquire", "-"))
    /\ UNCHANGED <<sess, mode, endVal, task, taskBranch, loopQuit, stopCalls>>
    /\ UNCHANGED <<addVars, nativeVars, feedVars, cancelVars>>
    /\ UNCHANGED libVars

\* let (cancel, cancel_recv) = channel(); context(cancel): from here on the
\* holder of the sender may send or drop it at any time.
CancelChannel ==
    /\ pc = "c_channel"
    /\ pc' = CancelNextPc(pc)
    /\ cancelTx' = "held"
    /\ cancelRx' = TRUE
    /\ UNCHANGED <<sess, mode, result, dataLive, calls, cancelVal, sendResult>>
    /\ UNCHANGED <<addVars, nativeVars, feedVars, taskVars>>
    /\ UNCHANGED libVars

\* main_context.spawn_local(async move { ... }): the task owns both receivers
\* and is polled only by the running main loop.
CancelSpawn ==
    /\ pc = "c_spawn"
    /\ pc' = CancelNextPc(pc)
    /\ task' = "select"
    /\ UNCHANGED <<sess, mode, result, dataLive, calls, endSlot, endVal,
                   taskBranch, loopQuit, stopCalls>>
    /\ UNCHANGED <<addVars, nativeVars, feedVars, cancelVars>>
    /\ UNCHANGED libVars

\* sr_session_stopped_callback_set(ctx, quit_loop, &mut end_sender)?, then
\* main_loop.run() is entered. An error returns with the task still spawned.
CancelStoppedSet ==
    /\ pc = "c_stopped_set"
    /\ \E rc \in NativeCodes :
        /\ StepOutcome("sr_session_stopped_callback_set", rc, CancelNextPc(pc))
        /\ stoppedCb' = IF rc = "SR_OK" THEN "quit_loop" ELSE stoppedCb
        /\ endSlot' = IF rc = "SR_OK" THEN endSlot ELSE DropEndSender(endSlot)
    /\ UNCHANGED <<sess, mode, datafeedReg, acq, stopRequested, endVal, task,
                   taskBranch, loopQuit, stopCalls>>
    /\ UNCHANGED <<addVars, feedVars, cancelVars>>
    /\ UNCHANGED libVars

\* main_loop.run() returns after quit(); main_context.release().
CancelRunReturn ==
    /\ pc = "c_running"
    /\ loopQuit
    /\ pc' = CancelNextPc(pc)
    /\ calls' = Append(calls, Call("release", "-"))
    /\ UNCHANGED <<sess, mode, result, dataLive>>
    /\ UNCHANGED <<addVars, nativeVars, feedVars, cancelVars, taskVars>>
    /\ UNCHANGED libVars

\* sr_session_datafeed_callback_remove_all(ctx) is the value of the call; the
\* locals, end_sender among them, die with the frame.
CancelRemoveAll ==
    /\ pc = "c_remove"
    /\ \E rc \in NativeCodes :
        /\ StepOutcome("sr_session_datafeed_callback_remove_all", rc, CancelNextPc(pc))
        /\ datafeedReg' = (datafeedReg /\ rc # "SR_OK")
    /\ endSlot' = DropEndSender(endSlot)
    /\ UNCHANGED <<sess, mode, stoppedCb, acq, stopRequested, endVal, task,
                   taskBranch, loopQuit, stopCalls>>
    /\ UNCHANGED <<addVars, feedVars, cancelVars>>
    /\ UNCHANGED libVars

\* ------------------------------------------------------ the cooperative task
\* A one-shot receiver resolves when a value is enqueued or its sender is gone.
EndReady == endVal \/ endSlot = "dropped"
CancelReady == cancelVal \/ cancelTx = "dropped"

\* Mutant: the cancel arm takes a dropped sender (Canceled) for Ok(()).
select_biased_canceled_is_ok(endReady, cancelReady, cancelOk) ==
    IF endReady THEN "end"
    ELSE IF cancelReady THEN "cancel_ok"
    ELSE "pending"

\* Mutant: cancel_recv is polled first, end_receiver second.
select_biased_cancel_first(endReady, cancelReady, cancelOk) ==
    IF cancelReady
    THEN (IF cancelOk THEN "cancel_ok" ELSE "cancel_dropped")
    ELSE IF endReady THEN "end" ELSE "pending"

\* select_biased!: end_receiver is polled first, cancel_recv second.
select_biased(endReady, cancelReady, cancelOk) ==
    IF endReady THEN "end"
    ELSE IF cancelReady
         THEN (IF cancelOk THEN "cancel_ok" ELSE "cancel_dropped")
         ELSE "pending"

\* Mutant: the loop is quit right after the select, whichever arm ran.
keep_waiting_never(branch) == FALSE

\* Mutant: only a received cancellation keeps the task waiting.
keep_waiting_only_after_stop(branch) == branch = "cancel_ok"

\* Mutant: the task awaits end_receiver again after the end arm.
keep_waiting_always(branch) == TRUE

\* After the select: the cancel arms keep waiting for end_receiver.
keep_waiting(branch) == branch # "end"

\* The main loop polls the task at its select point. The arm that ran decides:
\* Ok(()) from cancel_recv calls sr_session_stop; the end arm quits the loop.
\* Both receivers of the select are gone when it completes, except the
\* end_receiver the task keeps waiting on.
TaskSelect ==
    /\ pc = "c_running"
    /\ ~loopQuit
    /\ task = "select"
    /\ LET b == select_biased(EndReady, CancelReady, cancelVal) IN
        /\ b # "pending"
        /\ taskBranch' = b
        /\ cancelRx' = FALSE
        /\ stopCalls' = IF b = "cancel_ok" THEN stopCalls + 1 ELSE stopCalls
        /\ stopRequested' = (stopRequested \/ b = "cancel_ok")
        /\ task' = IF keep_waiting(b) THEN "await_end" ELSE "done"
        /\ loopQuit' = ~keep_waiting(b)
        /\ calls' =
            calls
            \o (IF b = "cancel_ok" THEN <<Call("sr_session_stop", "-")>> ELSE <<>>)
            \o (IF keep_waiting(b) THEN <<>> ELSE <<Call("quit", "-")>>)
    /\ UNCHANGED <<sess, mode, pc, result, dataLive, datafeedReg, stoppedCb, acq,
                   cancelTx, cancelVal, sendResult, endSlot, endVal>>
    /\ UNCHANGED <<addVars, feedVars>>
    /\ UNCHANGED libVars

\* let _ = end_receiver.await; main_loop_cancel.quit()
TaskAwaitEnd ==
    /\ pc = "c_running"
    /\ ~loopQuit
    /\ task = "await_end"
    /\ EndReady
    /\ task' = "done"
    /\ loopQuit' = TRUE
    /\ calls' = Append(calls, Call("quit", "-"))
    /\ UNCHANGED <<sess, mode, pc, result, dataLive, endSlot, endVal, taskBranch,
                   stopCalls>>
    /\ UNCHANGED <<addVars, nativeVars, feedVars, cancelVars>>
    /\ UNCHANGED libVars

\* ------------------------------------------------- the holder of the sender
\* Sender::send(()): Ok when the receiver is alive, Err when it is gone.
oneshot_send(rxAlive) == IF rxAlive THEN "Ok" ELSE "Err"

CancelSend ==
    /\ cancelTx = "held"
    /\ cancelTx' = "sent"
    /\ LET r == oneshot_send(cancelRx) IN
        /\ cancelVal' = (r = "Ok")
        /\ sendResult' = [res |-> r, pc |-> pc, acq |-> acq]
    /\ UNCHANGED <<sess, mode, pc, result, dataLive, calls, cancelRx>>
    /\ UNCHANGED <<addVars, nativeVars, feedVars, taskVars>>
    /\ UNCHANGED libVars

CancelDrop ==
    /\ cancelTx = "held"
    /\ cancelTx' = "dropped"
    /\ UNCHANGED <<sess, mode, pc, result, dataLive, calls, cancelVal, cancelRx,
                   sendResult>>
    /\ UNCHANGED <<addVars, nativeVars, feedVars, taskVars>>
    /\ UNCHANGED libVars

\* ------------------------------------------------------------ Drop for Session
\* sr_session_destroy(ctx), a nonzero status panicking; only between calls, the
\* run borrowing the Session.
SessionDrop ==
    /\ pc \in {"idle", "returned"}
    /\ sess = "live"
    /\ \E rc \in NativeCodes :
        IF SigrokError_from(rc) = "Ok"
        THEN /\ sess' = "destroyed"
             /\ datafeedReg' = FALSE
             /\ stoppedCb' = "unset"
        ELSE /\ sess' = "panicked"
             /\ UNCHANGED <<datafeedReg, stoppedCb>>
    /\ UNCHANGED <<mode, pc, result, dataLive, acq, stopRequested, calls>>
    /\ UNCHANGED <<addVars, feedVars, cancelVars, taskVars>>
    /\ UNCHANGED libVars

\* ------------------------------------------------- drivers and their contexts
\* Mutant: the initialized mark is not looked at.
Driver_init_unchecked(mark, rc) ==
    [panic |-> FALSE, native |-> TRUE, result |-> SigrokError_from(rc)]

\* Driver::init: a driver whose context field is set panics before any native
\* call; otherwise sr_driver_init runs and its status decides the result.
Driver_init(mark, rc) ==
    IF mark # NullPtr
    THEN [panic |-> TRUE, native |-> FALSE, result |-> "panic"]
    ELSE [panic |-> FALSE, native |-> TRUE, result |-> SigrokError_from(rc)]

\* The panic message of Driver::init, by its two format arguments.
InitPanic(d) ==
    [site |-> "Driver::init", msg |-> <<Driver_name(d), Driver_long_name(d)>>]

\* A Driver::init call on any Driver value of the list (the values are clones
\* sharing the native driver). A native init that succeeds sets the driver's
\* context field; one that fails leaves it null.
DriverInit ==
    /\ panicked = NoPanic
    /\ sigrok = "live"
    /\ inits < MaxInits
    /\ \E d \in Drivers, rc \in NativeCodes :
        LET r == Driver_init(drvContext[d], rc) IN
        /\ lastInit' =
            [drv |-> d, liveBefore |-> drvLive[d], native |-> r.native,
             result |-> r.result]
        /\ panicked' = IF r.panic THEN InitPanic(d) ELSE panicked
        /\ drvCalls' =
            IF r.native THEN Append(drvCalls, [call |-> "sr_driver_init", drv |-> d, rc |-> rc])
            ELSE drvCalls
        /\ drvContext' =
            IF r.native /\ rc = "SR_OK"
            THEN [drvContext EXCEPT ![d] = "drv_context"]
            ELSE drvContext
        /\ drvLive' =
            IF r.result = "Ok" THEN [drvLive EXCEPT ![d] = @ + 1] ELSE drvLive
    /\ inits' = inits + 1
    /\ UNCHANGED <<sigrok, vars_session, trigVars, convVars>>

\* Mutant: the context field is left as it was.
DriverContext_drop_keeps_mark(mark, cleanup) ==
    [cleanup |-> cleanup # NullPtr, mark |-> mark]

\* Drop for DriverContext: the driver's cleanup, when it has one, then the
\* context field is nulled.
DriverContext_drop(mark, cleanup) ==
    [cleanup |-> cleanup # NullPtr, mark |-> NullPtr]

DriverContextDrop ==
    /\ panicked = NoPanic
    /\ \E d \in Drivers :
        /\ drvLive[d] > 0
        /\ LET r == DriverContext_drop(drvContext[d], Driver_cleanup(d)) IN
            /\ drvCalls' =
                IF r.cleanup THEN Append(drvCalls, [call |-> "cleanup", drv |-> d, rc |-> "-"])
                ELSE drvCalls
            /\ drvContext' = [drvContext EXCEPT ![d] = r.mark]
        /\ drvLive' = [drvLive EXCEPT ![d] = @ - 1]
    /\ UNCHANGED <<sigrok, inits, lastInit, panicked, vars_session, trigVars, convVars>>

\* Drop for Sigrok: sr_exit, a nonzero status panicking. Every Driver and
\* DriverContext borrows the context, so none is alive by then.
SigrokDrop ==
    /\ panicked = NoPanic
    /\ sigrok = "live"
    /\ \A d \in Drivers : drvLive[d] = 0
    /\ \E rc \in NativeCodes :
        /\ drvCalls' = Append(drvCalls, [call |-> "sr_exit", drv |-> "-", rc |-> rc])
        /\ IF SigrokError_from(rc) = "Ok"
           THEN /\ sigrok' = "destroyed"
                /\ UNCHANGED panicked
           ELSE /\ panicked' = [site |-> "Drop for Sigrok", msg |-> <<>>]
                /\ UNCHANGED sigrok
    /\ UNCHANGED <<drvContext, drvLive, inits, lastInit, vars_session, trigVars, convVars>>

\* Initializing drivers and dropping their contexts, then the context itself.
NextDriver ==
    \/ DriverInit
    \/ DriverContextDrop
    \/ SigrokDrop

SpecDriver == Init /\ [][NextDriver]_vars

\* ------------------------------------------------------------------ triggers
\* The channels of the scanned device a match may name, and their kinds.
Channel_type(ch) == IF ch = "D0" THEN "SR_CHANNEL_LOGIC" ELSE "SR_CHANNEL_ANALOG"
\* The Trigger values callers build: a rising edge on a logic channel, a
\* threshold on an analog channel, a threshold on a logic channel.
Triggers_of_caller ==
    {[channel |-> "D0", trigger_match |-> "Rising", value |-> 0],
     [channel |-> "A0", trigger_match |-> "Over", value |-> 1],
     [channel |-> "D0", trigger_match |-> "Over", value |-> 1]}
SeqsUpTo(S, n) == UNION {[1..k -> S] : k \in 0..n}
\* The stage lists handed to Triggers::new.
TriggerInputs == SeqsUpTo(SeqsUpTo(Triggers_of_caller, MaxMatches), MaxStages)

\* Native sr_trigger_match_add: the match is appended to the stage when the
\* match type fits the channel's kind, and refused with SR_ERR_ARG otherwise.
sr_trigger_match_add(m) ==
    IF Channel_type(m.channel) = "SR_CHANNEL_LOGIC"
    THEN IF m.trigger_match \in {"Zero", "One", "Rising", "Falling", "Edge"}
         THEN "SR_OK" ELSE "SR_ERR_ARG"
    ELSE IF m.trigger_match \in {"Falling", "Rising", "Over", "Under"}
         THEN "SR_OK" ELSE "SR_ERR_ARG"

\* The native stage one caller stage leaves: its matches the native layer took,
\* in order.
NativeStage(stage) == SelectSeq(stage, LAMBDA m : sr_trigger_match_add(m) = "SR_OK")

\* The native calls of the two nested for_each loops: one stage-add per stage,
\* then one match-add per match of it, the status of the match-add discarded.
MatchCalls(i, stage) ==
    [j \in 1..Len(stage) |->
        [call |-> "sr_trigger_match_add", stage |-> i, match |-> stage[j],
         rc |-> sr_trigger_match_add(stage[j])]]
RECURSIVE StageCalls(_, _)
StageCalls(stages, i) ==
    IF i > Len(stages) THEN <<>>
    ELSE <<[call |-> "sr_trigger_stage_add", stage |-> i, match |-> "-", rc |-> "-"]>>
         \o MatchCalls(i, stages[i]) \o StageCalls(stages, i + 1)

\* Triggers::new: a null sr_trigger_new is Err(Arg); otherwise the stages are
\* built, and a trigger with no stage, or whose first stage has no match, is
\* freed and replaced by the null Triggers value.
Triggers_new(stages, ptr) ==
    IF ptr = NullPtr
    THEN [result |-> "Arg", value |-> "none", native |-> <<>>,
          calls |-> <<[call |-> "sr_trigger_new", stage |-> 0, match |-> "-", rc |-> NullPtr]>>]
    ELSE LET native == [i \in 1..Len(stages) |-> NativeStage(stages[i])]
             built ==
                <<[call |-> "sr_trigger_new", stage |-> 0, match |-> "-", rc |-> ptr]>>
                \o StageCalls(stages, 1)
         IN  IF native = <<>> \/ native[1] = <<>>
             THEN [result |-> "Ok", value |-> NullPtr, native |-> native,
                   calls |-> Append(built,
                        [call |-> "sr_trigger_free", stage |-> 0, match |-> "-", rc |-> "-"])]
             ELSE [result |-> "Ok", value |-> ptr, native |-> native, calls |-> built]

TriggersNew ==
    /\ panicked = NoPanic
    /\ trigPc = "init"
    /\ trigNew' = Triggers_new(trigIn, trigPtr)
    /\ trigPc' = "built"
    /\ UNCHANGED <<trigIn, trigPtr, trigInstall, trigFreed, panicked, driverVars,
                   vars_session, convVars>>

\* AutoDrop::deref forms a reference from the pointer it holds. From the null
\* pointer that is undefined behaviour: a build either hands the null address
\* on or stops at its null-pointer check.
AutoDrop_deref(value) == IF value = NullPtr THEN {NullPtr, "abort"} ELSE {value}

\* Session::set_triggers: Some(triggers) passes the dereferenced trigger to
\* sr_session_trigger_set, None passes null; the native status is the result.
set_triggers(opt, value, rc) ==
    [opt |-> opt, arg |-> IF opt = "Some" THEN value ELSE NullPtr, rc |-> rc,
     result |-> SigrokError_from(rc)]

SetTriggers ==
    /\ panicked = NoPanic
    /\ trigPc = "built"
    /\ \E opt \in {"None", "Some"}, rc \in NativeCodes :
        /\ opt = "Some" => trigNew.result = "Ok"
        /\ \E v \in (IF opt = "Some" THEN AutoDrop_deref(trigNew.value) ELSE {NullPtr}) :
            IF v = "abort"
            THEN /\ panicked' = [site |-> "AutoDrop::deref", msg |-> <<>>]
                 /\ trigInstall' = [NoInstall EXCEPT !.opt = opt]
                 /\ trigPc' = "aborted"
            ELSE /\ trigInstall' = set_triggers(opt, v, rc)
                 /\ trigPc' = "set"
                 /\ UNCHANGED panicked
    /\ UNCHANGED <<trigIn, trigPtr, trigNew, trigFreed, driverVars, vars_session, convVars>>

\* Mutant: the drop function frees whatever pointer is held, null included.
AutoDrop_drop_frees_null(value) ==
    <<[call |-> "sr_trigger_free", arg |-> value]>>

\* Drop for AutoDrop: the drop function is called with the pointer held.
\* AutoDrop::new stored sr_trigger_free, AutoDrop::null stored |_| {} with the
\* null pointer.
AutoDrop_drop(value) ==
    IF value = NullPtr THEN <<>>
    ELSE <<[call |-> "sr_trigger_free", arg |-> value]>>

\* The Triggers value goes out of scope, before or after it was installed.
TriggersDrop ==
    /\ panicked = NoPanic
    /\ trigPc \in {"built", "set"}
    /\ trigNew.result = "Ok"
    /\ trigFreed' = AutoDrop_drop(trigNew.value)
    /\ trigPc' = "dropped"
    /\ UNCHANGED <<trigIn, trigPtr, trigNew, trigInstall, panicked, driverVars,
                   vars_session, convVars>>

\* A Triggers value built from any stage list, installed on a session, dropped.
InitTriggers ==
    /\ SessionIdle
    /\ DriverIdle
    /\ TriggersIdle
    /\ trigIn \in TriggerInputs
    /\ trigPtr \in {"sr_trigger", NullPtr}
    /\ ConfigIdle
    /\ errCode = 0
    /\ optArr = EmptyArray
    /\ rateIn = NoRates
    /\ hdrIn = ZeroTime
    /\ panicked = NoPanic

NextTriggers ==
    \/ TriggersNew
    \/ SetTriggers
    \/ TriggersDrop

SpecTriggers == InitTriggers /\ [][NextTriggers]_vars

\* ------------------------------------------------- status codes as integers
\* The native status codes by name (util.rs raw_error_code, the values of the
\* native header).
raw_error_code ==
    [SR_OK |-> 0, SR_ERR |-> -1, SR_ERR_MALLOC |-> -2, SR_ERR_ARG |-> -3,
     SR_ERR_BUG |-> -4, SR_ERR_SAMPLERATE |-> -5, SR_ERR_NA |-> -6,
     SR_ERR_DEV_CLOSED |-> -7, SR_ERR_TIMEOUT |-> -8, SR_ERR_CHANNEL_GROUP |-> -9,
     SR_ERR_DATA |-> -10, SR_ERR_IO |-> -11]
\* The range of an i32.
I32Max == 2147483647
I32Min == -I32Max - 1
\* The codes translated: all near zero, and the ends of the i32 range.
CodeInputs == (-MaxCode..MaxCode) \cup {I32Min, I32Max}

\* Mutant: the SR_ERR_DATA arm answers the kind of the arm below it.
SigrokError_from_i32_data_as_io(code) ==
    CASE code = raw_error_code.SR_OK -> "Ok"
      [] code = raw_error_code.SR_ERR -> "Err"
      [] code = raw_error_code.SR_ERR_MALLOC -> "Malloc"
      [] code = raw_error_code.SR_ERR_ARG -> "Arg"
      [] code = raw_error_code.SR_ERR_BUG -> "Bug"
      [] code = raw_error_code.SR_ERR_SAMPLERATE -> "SampleRate"
      [] code = raw_error_code.SR_ERR_NA -> "NA"
      [] code = raw_error_code.SR_ERR_DEV_CLOSED -> "DevClosed"
      [] code = raw_error_code.SR_ERR_TIMEOUT -> "Timeout"
      [] code = raw_error_code.SR_ERR_CHANNEL_GROUP -> "ChannelGroup"
      [] code = raw_error_code.SR_ERR_DATA -> "IO"
      [] code = raw_error_code.SR_ERR_IO -> "IO"
      [] OTHER -> "Unknown"

\* SigrokError::from on the i32 itself: the match on the twelve constants and
\* its wildcard arm.
SigrokError_from_i32(code) ==
    CASE code = raw_error_code.SR_OK -> "Ok"
      [] code = raw_error_code.SR_ERR -> "Err"
      [] code = raw_error_code.SR_ERR_MALLOC -> "Malloc"
      [] code = raw_error_code.SR_ERR_ARG -> "Arg"
      [] code = raw_error_code.SR_ERR_BUG -> "Bug"
      [] code = raw_error_code.SR_ERR_SAMPLERATE -> "SampleRate"
      [] code = raw_error_code.SR_ERR_NA -> "NA"
      [] code = raw_error_code.SR_ERR_DEV_CLOSED -> "DevClosed"
      [] code = raw_error_code.SR_ERR_TIMEOUT -> "Timeout"
      [] code = raw_error_code.SR_ERR_CHANNEL_GROUP -> "ChannelGroup"
      [] code = raw_error_code.SR_ERR_DATA -> "Data"
      [] code = raw_error_code.SR_ERR_IO -> "IO"
      [] OTHER -> "Unknown"

Translate ==
    /\ errResult = "none"
    /\ errResult' = SigrokError_from_i32(errCode)
    /\ UNCHANGED <<errCode, cfgVars, optVars, rateVars, hdrVars, driverVars, trigVars, vars_session, panicked>>

\* One status code of any value, translated.
InitTranslate ==
    /\ SessionIdle
    /\ DriverIdle
    /\ TriggersIdle
    /\ trigIn = <<>>
    /\ trigPtr = "sr_trigger"
    /\ ConfigIdle
    /\ errCode \in CodeInputs
    /\ optArr = EmptyArray
    /\ rateIn = NoRates
    /\ hdrIn = ZeroTime
    /\ panicked = NoPanic

NextTranslate == Translate

SpecTranslate == InitTranslate /\ [][NextTranslate]_vars

\* --------------------------------------------------- config_set, config_get
\* The value types with a SetConfig and a GetConfig implementation.
ConfigTypes ==
    {"bool", "u64", "f64", "i32", "str", "range_f64", "range_u64", "ratio", "mq"}
\* The values a caller sets, as sequences of numbers: a string as its bytes (0
\* the null byte), a bool as 0 or 1, a range as start and end, a rational as
\* numerator and denominator, a measured quantity as the position of its
\* MqType variant and the bits of its flags.
StrValues == SeqsUpTo({0, 97}, MaxStrLen)
ValuesOf(type) ==
    CASE type = "str" -> StrValues
      [] type = "bool" -> {<<0>>, <<1>>}
      [] type = "i32" -> {<<-1>>, <<2>>}
      [] type \in {"range_f64", "range_u64", "ratio"} -> {<<1, 2>>, <<2, 1>>}
      [] type = "mq" -> {<<0, 1>>, <<1, 3>>}
      [] OTHER -> {<<1>>, <<2>>}
\* The container shapes sr_config_get may hand back for a measured quantity.
VariantShapes == {"tuple2", "other"}

\* CString::new: a string with a null byte anywhere is refused.
CString_new(bytes) ==
    IF \E i \in 1..Len(bytes) : bytes[i] = 0 THEN "NulError" ELSE "Ok"

\* The MqType variants by position, Voltage first, and the native code of
\* each (From<MqType> for u32); the variant of a native code, Voltage for a
\* code that has none (try_into().unwrap_or(MqType::Voltage)).
MqTypes == 0..32
MqType_into(t) == 10000 + t
MqType_try_from(code) == IF code - 10000 \in MqTypes THEN code - 10000 ELSE 0
\* MqFlags::from_bits_truncate: the bits of the twenty-two flags are kept.
MqFlags_from_bits_truncate(bits) == bits % (2 ^ 22)

\* The bytes g_variant_new_string copies: up to the first null byte.
RECURSIVE CStr_bytes(_)
CStr_bytes(bytes) ==
    IF bytes = <<>> \/ Head(bytes) = 0 THEN <<>>
    ELSE <<Head(bytes)>> \o CStr_bytes(Tail(bytes))

\* The GVariant type string each value type is encoded as.
GVariant_type(type) ==
    CASE type = "bool" -> "b"
      [] type = "u64" -> "t"
      [] type = "f64" -> "d"
      [] type = "i32" -> "i"
      [] type = "str" -> "s"
      [] type = "range_f64" -> "(dd)"
      [] type \in {"range_u64", "ratio"} -> "(tt)"
      [] type = "mq" -> "(ut)"

\* The GVariant each set_config builds for the native set: g_variant_new_* of
\* the value, a tuple of two for a range, a rational (numerator, denominator)
\* and a measured quantity (type code, flag bits).
SetConfig_variant(type, value) ==
    [key |-> type, type |-> GVariant_type(type),
     value |->
        CASE type = "bool" -> <<IF value[1] # 0 THEN 1 ELSE 0>>
          [] type = "str" -> CStr_bytes(value \o <<0>>)
          [] type = "mq" -> <<MqType_into(value[1]), value[2]>>
          [] OTHER -> value]

\* Native sr_config_get of a device that stores what it is set to: the
\* GVariant it holds for the key, its own zero value for a key never set.
sr_config_get(type, held) ==
    IF held.key = type THEN held
    ELSE [key |-> type, type |-> GVariant_type(type),
          value |->
            CASE type = "str" -> <<>>
              [] type \in {"range_f64", "range_u64", "ratio"} -> <<0, 0>>
              [] type = "mq" -> <<MqType_into(0), 0>>
              [] OTHER -> <<0>>]

\* Mutant: a rational is read back end first.
GetConfig_value_ratio_swapped(type, variant) ==
    CASE type = "bool" -> <<IF variant.value[1] = 1 THEN 1 ELSE 0>>
      [] type = "ratio" -> <<variant.value[2], variant.value[1]>>
      [] type \in {"range_f64", "range_u64"} -> <<variant.value[1], variant.value[2]>>
      [] type = "mq" ->
            <<MqType_try_from(variant.value[1]), MqFlags_from_bits_truncate(variant.value[2])>>
      [] OTHER -> variant.value

\* The value each get_config reads out of the GVariant: g_variant_get_* of it,
\* a bool by comparing with 1, a range and a rational from the two children
\* in order, a measured quantity from the type code and the flag bits.
GetConfig_value(type, variant) ==
    CASE type = "bool" -> <<IF variant.value[1] = 1 THEN 1 ELSE 0>>
      [] type = "ratio" -> <<variant.value[1], variant.value[2]>>
      [] type \in {"range_f64", "range_u64"} -> <<variant.value[1], variant.value[2]>>
      [] type = "mq" ->
            <<MqType_try_from(variant.value[1]), MqFlags_from_bits_truncate(variant.value[2])>>
      [] OTHER -> variant.value

\* set (set_get.rs): sr_config_set, its status translated.
set(rc) == [native |-> TRUE, result |-> SigrokError_from(rc)]

\* Mutant: the string goes to the native call as it is.
set_config_str_unchecked(type, value, rc) == set(rc)

\* SetConfig::set_config of each type: the value is wrapped and handed to set;
\* a string is first made a CString, whose failure is the NullError result.
set_config(type, value, rc) ==
    IF type = "str" /\ CString_new(value) # "Ok"
    THEN [native |-> FALSE, result |-> "NullError"]
    ELSE set(rc)

\* Configurable::config_set. A native set that answers SR_OK stores the value
\* on the device.
ConfigSet ==
    /\ panicked = NoPanic
    /\ cfgOps < MaxOps
    /\ \E type \in ConfigTypes, rc \in NativeCodes :
        \E value \in ValuesOf(type) :
            LET r == set_config(type, value, rc) IN
            /\ cfgStored' =
                IF r.native /\ rc = "SR_OK" THEN [type |-> type, value |-> value]
                ELSE cfgStored
            /\ cfgVariant' =
                IF r.native /\ rc = "SR_OK" THEN SetConfig_variant(type, value)
                ELSE cfgVariant
            /\ cfgLast' =
                [op |-> "set", type |-> type, value |-> value, shape |-> "none",
                 native |-> r.native, rc |-> IF r.native THEN rc ELSE "none",
                 result |-> r.result, got |-> NoValue, before |-> cfgStored]
    /\ cfgOps' = cfgOps + 1
    /\ UNCHANGED <<errVars, optVars, rateVars, hdrVars, driverVars, trigVars, vars_session, panicked>>

\* Mutant: a failed native get answers the type's default value.
get_config_default_on_error(type, rc, shape, held) ==
    IF SigrokError_from(rc) # "Ok"
    THEN [result |-> "Ok", got |-> [type |-> type, value |-> <<>>]]
    ELSE IF type = "mq" /\ shape # "tuple2"
         THEN [result |-> "Arg", got |-> NoValue]
         ELSE [result |-> "Ok",
               got |-> [type |-> type, value |-> GetConfig_value(type, held)]]

\* GetConfig::get_config of each type: get (sr_config_get, a failure returned
\* by `?`), then the decoding of the GVariant handed back, which only a
\* measured quantity can fail: it must be a tuple of two.
get_config(type, rc, shape, held) ==
    IF SigrokError_from(rc) # "Ok"
    THEN [result |-> SigrokError_from(rc), got |-> NoValue]
    ELSE IF type = "mq" /\ shape # "tuple2"
         THEN [result |-> "Arg", got |-> NoValue]
         ELSE [result |-> "Ok",
               got |-> [type |-> type, value |-> GetConfig_value(type, held)]]

\* Configurable::config_get; the native layer hands back what the device
\* holds.
ConfigGet ==
    /\ panicked = NoPanic
    /\ cfgOps < MaxOps
    /\ \E type \in ConfigTypes, rc \in NativeCodes, shape \in VariantShapes :
        LET r == get_config(type, rc, shape, sr_config_get(type, cfgVariant)) IN
        cfgLast' =
            [op |-> "get", type |-> type, value |-> <<>>, shape |-> shape,
             native |-> TRUE, rc |-> rc, result |-> r.result, got |-> r.got,
             before |-> cfgStored]
    /\ cfgOps' = cfgOps + 1
    /\ UNCHANGED <<cfgStored, cfgVariant, errVars, optVars, rateVars, hdrVars, driverVars, trigVars, vars_session,
                   panicked>>

\* Setting and getting configuration values of a device.
NextConfig ==
    \/ ConfigSet
    \/ ConfigGet

SpecConfig == Init /\ [][NextConfig]_vars

\* ------------------------------------------------------------ config_options
\* Config keys the native enumeration may hold: four the Config enum knows, of
\* four option types, and one it does not know.
OptionKeys ==
    {"SR_CONF_RLE", "SR_CONF_PATTERN_MODE", "SR_CONF_SAMPLERATE",
     "SR_CONF_LIMIT_SAMPLES", "SR_CONF_OTHER"}
\* What sr_config_list answers for a key: a failure, the container left null,
\* or success with a container of some type (a u64 array, a string array, a
\* dictionary with one of the two samplerate entries).
ListAnswers ==
    {[rc |-> "SR_ERR", shape |-> NullPtr]}
    \cup {[rc |-> "SR_OK", shape |-> sh] :
            sh \in {"at", "as", "samplerates", "samplerate-steps"}}
\* One element of the enumeration, with what the native layer answers about
\* its key: whether it has the LIST capability, and the list call's answer.
OptionElements == [key : OptionKeys, list : BOOLEAN, answer : ListAnswers]
OptionArrays ==
    {[ptr |-> NullPtr, keys |-> <<>>]}
    \cup {[ptr |-> "garray", keys |-> ks] : ks \in SeqsUpTo(OptionElements, MaxKeys)}

\* The match of Config::from_sigrok: the variant and option type of each
\* known key.
Config_variant(key) ==
    CASE key = "SR_CONF_RLE" -> [name |-> "Rle", option |-> "BoolOption"]
      [] key = "SR_CONF_PATTERN_MODE" -> [name |-> "PatternMode", option |-> "StringOption"]
      [] key = "SR_CONF_SAMPLERATE" -> [name |-> "SampleRate", option |-> "SampleRateOption"]
      [] key = "SR_CONF_LIMIT_SAMPLES" -> [name |-> "LimitSamples", option |-> "U64Option"]
      [] OTHER -> [name |-> "None", option |-> "None"]

\* get_variant: the container of a list call that succeeded, None otherwise.
get_variant(answer) ==
    IF SigrokError_from(answer.rc) = "Ok" THEN answer.shape ELSE "None"

\* Mutant: a sample rate query without a container answers a fixed list.
Option_from_sigrok_null_as_fixed(option, answer) ==
    LET variant == get_variant(answer) IN
    CASE option = "BoolOption" -> "BoolOption"
      [] option = "StringOption" -> IF variant = "as" THEN "strings" ELSE "empty"
      [] option = "U64Option" -> IF variant = "at" THEN "values" ELSE "None"
      [] option = "SampleRateOption" ->
            IF variant = "samplerates" \/ variant = "None" THEN "Fixed"
            ELSE IF variant = "samplerate-steps" THEN "Range"
            ELSE "None"

\* from_sigrok of each option type: the possible values decoded from the list
\* call, None when there is no container or it is not of the expected type.
Option_from_sigrok(option, answer) ==
    LET variant == get_variant(answer) IN
    CASE option = "BoolOption" -> "BoolOption"
      [] option = "StringOption" -> IF variant = "as" THEN "strings" ELSE "empty"
      [] option = "U64Option" -> IF variant = "at" THEN "values" ELSE "None"
      [] option = "SampleRateOption" ->
            IF variant = "samplerates" THEN "Fixed"
            ELSE IF variant = "samplerate-steps" THEN "Range"
            ELSE "None"

\* Default::default of each option type.
Option_default(option) ==
    CASE option = "BoolOption" -> "BoolOption"
      [] option = "SampleRateOption" -> "Unknown"
      [] OTHER -> "empty"

\* Mutant: a key whose possible values cannot be decoded yields no descriptor.
Config_from_sigrok_drop_undecoded(el) ==
    LET v == Config_variant(el.key)
        decoded == Option_from_sigrok(v.option, el.answer)
    IN  IF v.name = "None" \/ (el.list /\ decoded = "None")
        THEN [some |-> FALSE, key |-> el.key, name |-> "None", value |-> "None"]
        ELSE [some |-> TRUE, key |-> el.key, name |-> v.name,
              value |-> IF el.list THEN decoded ELSE Option_default(v.option)]

\* Config::from_sigrok: None for an unknown key; for a known one its variant,
\* holding the decoded possible values when the key has the LIST capability
\* and they decode, the option type's default otherwise.
Config_from_sigrok(el) ==
    LET v == Config_variant(el.key)
        decoded == Option_from_sigrok(v.option, el.answer)
    IN  IF v.name = "None"
        THEN [some |-> FALSE, key |-> el.key, name |-> "None", value |-> "None"]
        ELSE [some |-> TRUE, key |-> el.key, name |-> v.name,
              value |->
                IF el.list /\ decoded # "None" THEN decoded
                ELSE Option_default(v.option)]

\* The filter_map over the enumeration.
RECURSIVE filter_map(_)
filter_map(keys) ==
    IF keys = <<>> THEN <<>>
    ELSE LET c == Config_from_sigrok(Head(keys)) IN
         (IF c.some THEN <<c>> ELSE <<>>) \o filter_map(Tail(keys))

\* Configurable::config_options: Err for a null enumeration, otherwise the
\* descriptors of its keys.
config_options(arr) ==
    IF arr.ptr = NullPtr
    THEN [result |-> "Err", list |-> <<>>]
    ELSE [result |-> "Ok", list |-> filter_map(arr.keys)]

ConfigOptions ==
    /\ panicked = NoPanic
    /\ optResult = NoOptions
    /\ optResult' = config_options(optArr)
    /\ UNCHANGED <<optArr, errVars, cfgVars, rateVars, hdrVars, driverVars, trigVars, vars_session,
                   panicked>>

\* A device with any option enumeration, listed once.
InitOptions ==
    /\ SessionIdle
    /\ DriverIdle
    /\ TriggersIdle
    /\ trigIn = <<>>
    /\ trigPtr = "sr_trigger"
    /\ ConfigIdle
    /\ errCode = 0
    /\ optArr \in OptionArrays
    /\ rateIn = NoRates
    /\ hdrIn = ZeroTime
    /\ panicked = NoPanic

NextOptions == ConfigOptions

SpecOptions == InitOptions /\ [][NextOptions]_vars

\* ------------------------------------------------- possible sample rates
\* The u64 values of a sample rate listing.
RateValues == {1, 2}
\* The entries a dictionary may hold under "samplerates" and under
\* "samplerate-steps": none, or an array of u64 of any length.
RateEntries ==
    {AbsentEntry}
    \cup {[present |-> TRUE, values |-> vs] : vs \in SeqsUpTo(RateValues, MaxRates)}
\* The containers a list call that succeeded hands back: a dictionary, or a
\* value of another type.
RateContainers ==
    {[kind |-> "dict", samplerates |-> a, steps |-> b] : a, b \in RateEntries}
    \cup {[kind |-> "other", samplerates |-> AbsentEntry, steps |-> AbsentEntry]}
\* What the native layer answers about the key: whether it has the LIST
\* capability, and the list call's status and container.
RateListings ==
    {[list |-> l, rc |-> "SR_ERR", container |-> NoRates.container] : l \in BOOLEAN}
    \cup {[list |-> l, rc |-> "SR_OK", container |-> c] :
            l \in BOOLEAN, c \in RateContainers}

\* Variant::lookup_value: the entry under a key of a dictionary, None when the
\* container is no dictionary or has no such entry.
Variant_lookup_value(container, key) ==
    IF container.kind # "dict" THEN AbsentEntry
    ELSE IF key = "samplerates" THEN container.samplerates
    ELSE container.steps

\* Variant::get_fixed_array: the elements of an array, None for the null data
\* pointer the native call hands back for an empty array.
Variant_get_fixed_array(entry) ==
    IF entry.values = <<>> THEN [some |-> FALSE, data |-> <<>>]
    ELSE [some |-> TRUE, data |-> entry.values]

\* Mutant: the stepped range is looked up before the fixed list.
SampleRateOption_from_sigrok_steps_first(rc, container) ==
    IF SigrokError_from(rc) # "Ok" THEN NoRate
    ELSE LET rates == Variant_lookup_value(container, "samplerates")
             steps == Variant_lookup_value(container, "samplerate-steps")
         IN  IF steps.present
             THEN LET vals == Variant_get_fixed_array(steps) IN
                  IF vals.some /\ Len(vals.data) >= 3
                  THEN [some |-> TRUE, kind |-> "Range", values |-> SubSeq(vals.data, 1, 3)]
                  ELSE NoRate
             ELSE IF rates.present
             THEN LET vals == Variant_get_fixed_array(rates) IN
                  IF vals.some
                  THEN [some |-> TRUE, kind |-> "Fixed", values |-> vals.data]
                  ELSE NoRate
             ELSE NoRate

\* SampleRateOption::from_sigrok: None when the list call fails; the fixed list
\* of the "samplerates" entry when there is one; else low, high and step from
\* the first three values of the "samplerate-steps" entry; else None. An array
\* that yields no elements, or fewer than three for the range, is None too.
SampleRateOption_from_sigrok(rc, container) ==
    IF SigrokError_from(rc) # "Ok" THEN NoRate
    ELSE LET rates == Variant_lookup_value(container, "samplerates")
             steps == Variant_lookup_value(container, "samplerate-steps")
         IN  IF rates.present
             THEN LET vals == Variant_get_fixed_array(rates) IN
                  IF vals.some
                  THEN [some |-> TRUE, kind |-> "Fixed", values |-> vals.data]
                  ELSE NoRate
             ELSE IF steps.present
             THEN LET vals == Variant_get_fixed_array(steps) IN
                  IF vals.some /\ Len(vals.data) >= 3
                  THEN [some |-> TRUE, kind |-> "Range", values |-> SubSeq(vals.data, 1, 3)]
                  ELSE NoRate
             ELSE NoRate

\* Default for SampleRateOption.
SampleRateOption_default == [some |-> TRUE, kind |-> "Unknown", values |-> <<>>]

\* The SR_CONF_SAMPLERATE arm of Config::from_sigrok: with the LIST capability
\* the decoded option, or the default when it is None; without, the default.
Config_SampleRate(listing) ==
    LET decoded == SampleRateOption_from_sigrok(listing.rc, listing.container) IN
    IF listing.list /\ decoded.some THEN decoded ELSE SampleRateOption_default

DecodeSampleRate ==
    /\ panicked = NoPanic
    /\ rateOut = NoRate
    /\ rateOut' = Config_SampleRate(rateIn)
    /\ UNCHANGED <<rateIn, errVars, cfgVars, optVars, hdrVars, driverVars, trigVars, vars_session,
                   panicked>>

\* A device with any sample rate listing, decoded once.
InitSampleRate ==
    /\ SessionIdle
    /\ DriverIdle
    /\ TriggersIdle
    /\ trigIn = <<>>
    /\ trigPtr = "sr_trigger"
    /\ ConfigIdle
    /\ errCode = 0
    /\ optArr = EmptyArray
    /\ rateIn \in RateListings
    /\ hdrIn = ZeroTime
    /\ panicked = NoPanic

NextSampleRate == DecodeSampleRate

SpecSampleRate == InitSampleRate /\ [][NextSampleRate]_vars

\* ------------------------------------------------- the header's start time
\* The timestamps a header packet may carry: both fields are C longs, and the
\* marshaller takes them as they come. Microsecond counts of a normalized
\* timeval, the first ones past it, and the ones around 2^32 / 1000.
HeaderTimes ==
    [tv_sec : 0..MaxSecs,
     tv_usec : (0..MaxUsec) \cup {999999, 1000000, 1000001, 4294967, 4294968, 5000000}]

\* A u32 as its two 16-bit halves, and the product of a u32 and 1000 in u32
\* arithmetic: the low 32 bits, and whether the product went past them.
U16 == 2 ^ 16
u32_mul_1000(x) ==
    LET lo == (x % U16) * 1000
        hi == (x \div U16) * 1000 + (lo \div U16)
    IN  [overflow |-> hi >= U16, hi |-> hi % U16, lo |-> lo % U16]

\* Duration::new(secs, nanos): whole seconds of the nanoseconds carry over
\* into the seconds. The nanoseconds come as the halves of a u32.
NANOS_PER_SEC == 1000 * 1000 * 1000
Duration_new(secs, hi, lo) ==
    LET a == hi * (U16 \div 2)
        t == 2 * (a % NANOS_PER_SEC) + lo
    IN  [panic |-> FALSE,
         secs |-> secs + 2 * (a \div NANOS_PER_SEC) + (t \div NANOS_PER_SEC),
         nanos |-> t % NANOS_PER_SEC]

\* The header branch of sr_session_callback: Duration::new(tv_sec as u64,
\* (tv_usec as u32) * 1000). A product past the u32 range panics in a build
\* with overflow checks and wraps around in one without.
Header_start_time(tv) ==
    LET nanos == u32_mul_1000(tv.tv_usec) IN
    {Duration_new(tv.tv_sec, nanos.hi, nanos.lo)}
    \cup (IF nanos.overflow THEN {[panic |-> TRUE, secs |-> 0, nanos |-> 0]} ELSE {})

\* The marshaller is handed a header packet.
HeaderPacket ==
    /\ panicked = NoPanic
    /\ hdrOut = NoTime
    /\ \E t \in Header_start_time(hdrIn) :
        /\ hdrOut' = t
        /\ panicked' =
            IF t.panic THEN [site |-> "sr_session_callback", msg |-> <<>>] ELSE panicked
    /\ UNCHANGED <<hdrIn, errVars, cfgVars, optVars, rateVars, driverVars, trigVars,
                   vars_session>>

\* A header packet with any timestamp, marshalled once.
InitHeader ==
    /\ SessionIdle
    /\ DriverIdle
    /\ TriggersIdle
    /\ trigIn = <<>>
    /\ trigPtr = "sr_trigger"
    /\ ConfigIdle
    /\ errCode = 0
    /\ optArr = EmptyArray
    /\ rateIn = NoRates
    /\ hdrIn \in HeaderTimes
    /\ panicked = NoPanic

NextHeader == HeaderPacket

SpecHeader == InitHeader /\ [][NextHeader]_vars

\* Attaching devices to a session, and dropping it.
NextAdd ==
    \/ AddDevice
    \/ SessionDrop

SpecAdd == Init /\ [][NextAdd]_vars

\* One acquisition run of a session, by either entry point.
Next ==
    \/ StartSetTriggers
    \/ StartCallbackAdd
    \/ StartStoppedClear
    \/ StartSessionStart
    \/ StartRun
    \/ StartRunReturn
    \/ StartRemoveAll
    \/ CancelSetTriggers
    \/ CancelCallbackAdd
    \/ CancelSessionStart
    \/ CancelAcquire
    \/ CancelChannel
    \/ CancelSpawn
    \/ CancelStoppedSet
    \/ CancelRunReturn
    \/ CancelRemoveAll
    \/ TaskSelect
    \/ TaskAwaitEnd
    \/ CancelSend
    \/ CancelDrop
    \/ NativePacket
    \/ NativeFinish
    \/ NativeStopped
    \/ SessionDrop

Spec == InitRun /\ [][Next]_vars

\* ------------------------------------------ start_with_cancel, scheduled
\* The statements of start_with_cancel after its first: the thread runs them
\* one after the other, and leaves main_loop.run() once the loop was quit.
CancelThread ==
    \/ CancelCallbackAdd
    \/ CancelSessionStart
    \/ CancelAcquire
    \/ CancelChannel
    \/ CancelSpawn
    \/ CancelStoppedSet
    \/ CancelRunReturn
    \/ CancelRemoveAll
\* The running main loop polls the spawned task whenever a receiver it waits
\* on has resolved.
CancelTask ==
    \/ TaskSelect
    \/ TaskAwaitEnd
\* The native layer ends an acquisition it was asked to stop, and reports
\* "stopped" for an acquisition that ended.
NativeWindDown ==
    \/ NativeFinish
    \/ NativeStopped

\* One run of start_with_cancel with the holder of the cancellation sender.
NextCancel ==
    \/ CancelSetTriggers
    \/ CancelThread
    \/ CancelTask
    \/ CancelSend
    \/ CancelDrop
    \/ NativePacket
    \/ NativeWindDown
    \/ SessionDrop

\* The thread keeps running, the loop keeps polling, the native layer winds an
\* acquisition down; packets, the cancellation and the drop of the session
\* come when they come, if at all.
SpecCancel ==
    /\ InitRun
    /\ [][NextCancel]_vars
    /\ WF_vars(CancelThread)
    /\ WF_vars(CancelTask)
    /\ WF_vars(NativeWindDown)

\* ================================================================== claims
\* Position of the first entry of the log made by `name`, 0 when there is none.
Pos(name) ==
    IF \E i \in 1..Len(calls) : calls[i].call = name
    THEN CHOOSE i \in 1..Len(calls) :
            /\ calls[i].call = name
            /\ \A j \in 1..(i - 1) : calls[j].call # name
    ELSE 0
Called(name) == Pos(name) > 0
Before(a, b) == Called(a) /\ Called(b) /\ Pos(a) < Pos(b)

\* The task took the cancel arm with Ok(()): the cancellation signal was
\* received before the natural-completion signal.
CancelledFirst == mode = "cancel" /\ taskBranch = "cancel_ok"
\* The task took the end arm: natural completion resolved first.
CompletedFirst == mode = "cancel" /\ taskBranch = "end"

\* C1: once the cancellation was received first, the loop quits only after the
\* native stop request was issued and after the native "stopped" notification
\* arrived; until that notification the call has not left its main loop and
\* the datafeed callback registration is still in place.
C1_StopBeforeQuitAfterStopped ==
    CancelledFirst =>
        /\ Called("sr_session_stop")
        /\ loopQuit => Before("sr_session_stop", "quit") /\ Before("stopped", "quit")
        /\ ~Called("stopped") => ~loopQuit /\ pc = "c_running" /\ datafeedReg
        /\ Called("sr_session_datafeed_callback_remove_all") =>
            Before("stopped", "sr_session_datafeed_callback_remove_all")

C1_Witness ==
    CancelledFirst /\ pc = "returned" /\ result = "Ok" /\ Before("stopped", "quit")

\* C2 as claimed: a run that completed after a cancellation was sent, with
\* success, before the native "stopped" notification called sr_session_stop
\* exactly once.
C2_ExactlyOneStopWhenSentBeforeCompletion ==
    (mode = "cancel" /\ pc = "returned" /\ result = "Ok"
        /\ sendResult.res = "Ok" /\ sendResult.acq # "stopped")
    => stopCalls = 1

\* C2 as amended: the task calls sr_session_stop at most once, only for a
\* cancellation that was sent with success, and always when it receives the
\* cancellation first; a cancellation sent with success that caused no stop call
\* in a completed run is one the task polled after natural completion.
C2_AtMostOneStopExactlyWhenReceivedFirst ==
    /\ stopCalls <= 1
    /\ stopCalls = 1 => sendResult.res = "Ok" /\ Called("sr_session_stop")
    /\ CancelledFirst => stopCalls = 1
    /\ (mode = "cancel" /\ pc = "returned" /\ result = "Ok"
            /\ sendResult.res = "Ok" /\ stopCalls = 0)
        => CompletedFirst

C2_Witness ==
    /\ mode = "cancel" /\ pc = "returned" /\ result = "Ok"
    /\ sendResult.res = "Ok" /\ sendResult.acq = "running"
    /\ stopCalls = 0

\* C3: when natural completion resolves first the task quits the loop in that
\* same poll, no stop request is ever issued, the cancellation receiver is
\* dropped, and the call then returns what the callback removal answers: the
\* dropped receiver yields no error.
C3_NaturalCompletionQuitsAtOnce ==
    CompletedFirst =>
        /\ loopQuit /\ task = "done"
        /\ stopCalls = 0 /\ ~Called("sr_session_stop")
        /\ ~cancelRx
        /\ Before("stopped", "quit")
        /\ pc = "returned" =>
            /\ calls[Len(calls)].call = "sr_session_datafeed_callback_remove_all"
            /\ result = SigrokError_from(calls[Len(calls)].rc)

C3_Witness ==
    CompletedFirst /\ pc = "returned" /\ result = "Ok" /\ cancelTx = "held"

\* C4 as claimed: a cancellation sent after the call has returned (and so also
\* after the Session was dropped) answers Err.
C4_SendAfterReturnIsErr ==
    (sendResult.res # "none" /\ sendResult.pc = "returned") => sendResult.res = "Err"

\* C5 as claimed: after start or start_with_cancel has returned, however it
\* returned, no datafeed callback registration pointing at that call's
\* SessionData is left on the session.
C5_NoRegistrationAfterReturn ==
    (pc = "returned" /\ sess = "live") => ~datafeedReg

\* The native calls of the blocking start, in the order the claim gives them;
\* run_returned marks sr_session_run coming back.
StartOrder ==
    <<"sr_session_trigger_set", "sr_session_datafeed_callback_add",
      "sr_session_stopped_callback_set", "sr_session_start", "sr_session_run",
      "run_returned", "sr_session_datafeed_callback_remove_all">>
\* The calls start itself made, without the native notifications and the stop
\* requests of the user callback.
OwnCalls ==
    SelectSeq(calls, LAMBDA c : c.call \notin {"stopped", "sr_session_stop"})

\* C6: the blocking start makes its native calls in the order triggers,
\* callback registration, stopped-callback clearing, start, run, callback
\* removal; every successful return made them all; the callback is removed only
\* after the acquisition has stopped, and once the native run is entered start
\* does not return before it came back.
C6_StartOrder ==
    mode = "start" =>
        /\ Len(OwnCalls) <= Len(StartOrder)
        /\ \A i \in 1..Len(OwnCalls) : OwnCalls[i].call = StartOrder[i]
        /\ (pc = "returned" /\ result = "Ok") => Len(OwnCalls) = Len(StartOrder)
        /\ Called("sr_session_datafeed_callback_remove_all") =>
            /\ Before("stopped", "sr_session_datafeed_callback_remove_all")
            /\ Before("run_returned", "sr_session_datafeed_callback_remove_all")
        /\ (acq # "idle" /\ sess = "live") => stoppedCb = "null"
        /\ (pc = "returned" /\ Called("sr_session_run")) => Called("run_returned")

C6_Witness ==
    /\ mode = "start" /\ pc = "returned" /\ result = "Ok"
    /\ Len(events) > 0 /\ events[Len(events)].ev = "End"

\* The packet kinds that carry an event, and the event each one carries.
EventKinds ==
    {"SR_DF_HEADER", "SR_DF_LOGIC", "SR_DF_ANALOG", "SR_DF_TRIGGER",
     "SR_DF_FRAME_BEGIN", "SR_DF_FRAME_END", "SR_DF_END"}
EventOf(kind) ==
    CASE kind = "SR_DF_HEADER" -> "Header"
      [] kind = "SR_DF_LOGIC" -> "Logic"
      [] kind = "SR_DF_ANALOG" -> "Analog"
      [] kind = "SR_DF_TRIGGER" -> "Trigger"
      [] kind = "SR_DF_FRAME_BEGIN" -> "FrameBegin"
      [] kind = "SR_DF_FRAME_END" -> "FrameEnd"
      [] kind = "SR_DF_END" -> "End"
EventPackets == SelectSeq(delivered, LAMBDA q : q.kind \in EventKinds)

\* C7: at every moment the events the user callback has received are exactly
\* the delivered packets of an event-carrying kind, one event per packet, each
\* of its packet's kind and payload, in delivery order: nothing is pending,
\* duplicated or reordered.
C7_OneEventPerPacketInOrder ==
    /\ Len(events) = Len(EventPackets)
    /\ \A i \in 1..Len(EventPackets) :
        events[i] = [ev |-> EventOf(EventPackets[i].kind), id |-> EventPackets[i].id]

C7_Witness ==
    /\ Len(events) >= 2
    /\ events[1].ev = "Logic"
    /\ events[2].ev = "Trigger"

\* C8: a packet of an unknown kind or of the metadata kind gives the user
\* callback no event and makes the marshaller fail in no way, and every later
\* packet of an event-carrying kind still gets its event.
C8_UnknownAndMetaIgnored ==
    \A i \in 1..Len(delivered) :
        delivered[i].kind \in {"SR_DF_META", "SR_DF_OTHER"} =>
            /\ \A e \in 1..Len(events) : events[e].id # delivered[i].id
            /\ ~feedPanic
            /\ \A j \in (i + 1)..Len(delivered) :
                delivered[j].kind \in EventKinds =>
                    \E e \in 1..Len(events) :
                        events[e] = [ev |-> EventOf(delivered[j].kind),
                                     id |-> delivered[j].id]

C8_Witness ==
    /\ Len(delivered) >= 2
    /\ delivered[1].kind \in {"SR_DF_META", "SR_DF_OTHER"}
    /\ delivered[2].kind = "SR_DF_LOGIC"
    /\ Len(events) = 1

\* C10 as claimed: an add_device call on an instance that was already open
\* goes on to the attach and answers what the attach answers, so it does not
\* fail on the open; a call whose open failed (the instance was closed and the
\* open did not succeed) answers that open's error and attaches nothing.
C10_AddDeviceOpenHandling ==
    lastAdd.dev # "none" =>
        /\ lastAdd.wasOpen =>
            lastAdd.attach /\ lastAdd.result = SigrokError_from(lastAdd.addRc)
        /\ (~lastAdd.wasOpen /\ lastAdd.openRc # "SR_OK") =>
            /\ ~lastAdd.attach
            /\ lastAdd.result = SigrokError_from(lastAdd.openRc)
            /\ lastAdd.result # "Ok"

\* ------------------------------------------------------------ driver claims
\* The native calls of the log made by `name` on driver d.
DrvCallsOf(name, d) == SelectSeq(drvCalls, LAMBDA c : c.call = name /\ c.drv = d)
\* The native inits of driver d that answered SR_OK.
DrvInitsOk(d) ==
    SelectSeq(drvCalls, LAMBDA c : c.call = "sr_driver_init" /\ c.drv = d /\ c.rc = "SR_OK")

\* C11: no driver ever has two live DriverContext values, and a live one keeps
\* the driver marked; a Driver::init call on a driver whose DriverContext is
\* still alive panics with the driver's name and long name in the message and
\* without a native init call, so the native inits of a driver that succeeded
\* never outnumber its cleanups by more than one.
C11_AtMostOneLiveContext ==
    /\ \A d \in Drivers :
        /\ drvLive[d] <= 1
        /\ drvLive[d] = 1 => drvContext[d] # NullPtr
        /\ Len(DrvInitsOk(d)) <= Len(DrvCallsOf("cleanup", d)) + 1
    /\ (lastInit.drv # "none" /\ lastInit.liveBefore > 0) =>
        /\ lastInit.result = "panic"
        /\ ~lastInit.native
        /\ panicked.site = "Driver::init"
        /\ panicked.msg = <<Driver_name(lastInit.drv), Driver_long_name(lastInit.drv)>>

C11_Witness ==
    /\ panicked.site = "Driver::init"
    /\ lastInit.drv = "fx2lafw"
    /\ lastInit.liveBefore = 1
    /\ drvLive["demo"] = 1

\* C12: every drop of a DriverContext ran the driver's cleanup once (the
\* cleanups of a driver are its successful inits less the context still alive)
\* and left the driver unmarked, and a Driver::init call on a driver with no
\* live DriverContext does not panic but goes to the native init and answers
\* its status, however many init and drop rounds came before.
C12_DropResetsMark ==
    /\ \A d \in Drivers :
        /\ Len(DrvCallsOf("cleanup", d)) = Len(DrvInitsOk(d)) - drvLive[d]
        /\ drvLive[d] = 0 => drvContext[d] = NullPtr
    /\ (lastInit.drv # "none" /\ lastInit.liveBefore = 0) =>
        /\ lastInit.result # "panic"
        /\ lastInit.native
        /\ panicked.site # "Driver::init"

C12_Witness ==
    /\ Len(DrvInitsOk("demo")) = 3
    /\ Len(DrvCallsOf("cleanup", "demo")) = 2
    /\ lastInit = [drv |-> "demo", liveBefore |-> 0, native |-> TRUE, result |-> "Ok"]
    /\ panicked = NoPanic

\* ----------------------------------------------------------- trigger claims
\* A stage list with no match condition: no stage, or only empty stages.
NoMatchCondition(stages) == \A i \in 1..Len(stages) : stages[i] = <<>>
\* A stage list of N >= 1 stages with the same number M >= 1 of matches each.
UniformStages(stages) ==
    /\ Len(stages) >= 1
    /\ Len(stages[1]) >= 1
    /\ \A i \in 1..Len(stages) : Len(stages[i]) = Len(stages[1])
TrigCallsOf(name) == SelectSeq(trigNew.calls, LAMBDA c : c.call = name)

\* C13 as claimed: installing a Triggers value built from no stage, or from
\* stages without a match condition, does what installing no trigger does:
\* set_triggers goes through to sr_session_trigger_set and passes null.
C13_EmptyTriggersInstallAsNone ==
    (trigPc \in {"set", "aborted"} /\ trigInstall.opt = "Some"
        /\ NoMatchCondition(trigIn)) =>
        /\ trigPc = "set"
        /\ panicked = NoPanic
        /\ trigInstall.arg = NullPtr

\* C14 as claimed: Triggers::new of N >= 1 stages with M >= 1 matches each
\* leaves a native trigger of just these stages and matches, in the caller's
\* order, each match with the caller's channel, match type and value, made by
\* one stage-add per stage and one match-add per match.
C14_NativeTriggerMirrorsStages ==
    (trigPc # "init" /\ trigNew.result = "Ok" /\ UniformStages(trigIn)) =>
        /\ trigNew.value # NullPtr
        /\ trigNew.native = trigIn
        /\ Len(TrigCallsOf("sr_trigger_stage_add")) = Len(trigIn)
        /\ Len(TrigCallsOf("sr_trigger_match_add")) = Len(trigIn) * Len(trigIn[1])
        /\ \A i \in 1..Len(trigIn) : \A j \in 1..Len(trigIn[i]) :
            TrigCallsOf("sr_trigger_match_add")[(i - 1) * Len(trigIn[1]) + j].match
                = trigIn[i][j]

\* C15 as claimed: the process panics only in Driver::init on a driver that is
\* already initialized and in the destructor of the context or of the session
\* on a nonzero native status; nothing else panics, the datafeed marshaller
\* included.
C15_OnlyReinitAndDestructorsPanic ==
    /\ panicked.site \in {"none", "Driver::init", "Drop for Sigrok", "Drop for Session"}
    /\ ~feedPanic

\* ------------------------------------------------------- translation claims
\* The error kind the documentation of the enum gives each named code.
KindOfCode ==
    [SR_ERR |-> "Err", SR_ERR_MALLOC |-> "Malloc", SR_ERR_ARG |-> "Arg",
     SR_ERR_BUG |-> "Bug", SR_ERR_SAMPLERATE |-> "SampleRate", SR_ERR_NA |-> "NA",
     SR_ERR_DEV_CLOSED |-> "DevClosed", SR_ERR_TIMEOUT |-> "Timeout",
     SR_ERR_CHANNEL_GROUP |-> "ChannelGroup", SR_ERR_DATA |-> "Data", SR_ERR_IO |-> "IO"]
ErrorCodeNames == DOMAIN KindOfCode

\* C16: every code has a translation, none panics: the OK code and no other is
\* success, each of the eleven named error codes gives its own kind, no two
\* of them the same one, and every other integer gives Unknown, which no
\* named code gives.
C16_TranslationIsTotal ==
    errResult # "none" =>
        /\ errResult \in {"Ok", "Unknown"} \cup {KindOfCode[n] : n \in ErrorCodeNames}
        /\ errResult = "Ok" <=> errCode = raw_error_code.SR_OK
        /\ \A n \in ErrorCodeNames :
            errCode = raw_error_code[n] <=> errResult = KindOfCode[n]
        /\ errResult = "Unknown" <=>
            /\ errCode # raw_error_code.SR_OK
            /\ \A n \in ErrorCodeNames : errCode # raw_error_code[n]
        /\ Cardinality({KindOfCode[n] : n \in ErrorCodeNames}) = 11

C16_Witness ==
    /\ errCode = I32Min
    /\ errResult = "Unknown"

\* ------------------------------------------------------------ config claims
\* C17: a config_set or config_get whose native call answered a failure
\* status returns the error kind of that status (Err for SR_ERR, Arg for
\* SR_ERR_ARG), never success and never a value, and a failed set stores
\* nothing; every get, and every set but the one of a string with a null
\* byte, makes the native call.
C17_NativeFailurePropagates ==
    /\ (cfgLast.native /\ cfgLast.rc # "SR_OK") =>
        /\ cfgLast.rc = "SR_ERR" => cfgLast.result = "Err"
        /\ cfgLast.rc = "SR_ERR_ARG" => cfgLast.result = "Arg"
        /\ cfgLast.result # "Ok"
        /\ cfgLast.got = NoValue
        /\ cfgStored = cfgLast.before
    /\ cfgLast.op = "get" => cfgLast.native
    /\ (cfgLast.op = "set" /\ ~cfgLast.native) =>
        cfgLast.type = "str" /\ CString_new(cfgLast.value) = "NulError"

C17_Witness ==
    /\ cfgLast.op = "get"
    /\ cfgLast.type = "ratio"
    /\ cfgLast.rc = "SR_ERR_ARG"
    /\ cfgLast.result = "Arg"
    /\ cfgLast.before = [type |-> "ratio", value |-> <<2, 1>>]

\* C18: setting a string option to a value with a null byte in it answers the
\* embedded-null error, makes no native set call, and leaves the device
\* holding what it held.
C18_EmbeddedNullRefused ==
    (cfgLast.op = "set" /\ cfgLast.type = "str"
        /\ \E i \in 1..Len(cfgLast.value) : cfgLast.value[i] = 0) =>
        /\ cfgLast.result = "NullError"
        /\ ~cfgLast.native
        /\ cfgStored = cfgLast.before

C18_Witness ==
    /\ cfgLast.op = "set"
    /\ cfgLast.type = "str"
    /\ cfgLast.value = <<97, 0>>
    /\ cfgLast.result = "NullError"
    /\ cfgStored = [type |-> "str", value |-> <<97>>]

\* ----------------------------------------------------------- option claims
\* The keys the Config enum knows, and the value a descriptor holds when the
\* possible values of its key are not known.
KnownKeys ==
    {"SR_CONF_RLE", "SR_CONF_PATTERN_MODE", "SR_CONF_SAMPLERATE", "SR_CONF_LIMIT_SAMPLES"}
EmptyValueOf(key) ==
    CASE key = "SR_CONF_RLE" -> "BoolOption"
      [] key = "SR_CONF_SAMPLERATE" -> "Unknown"
      [] OTHER -> "empty"
\* The elements of the enumeration with a known key, in its order.
KnownElements == SelectSeq(optArr.keys, LAMBDA el : el.key \in KnownKeys)
\* The list call of an element cannot give the possible values of its key.
Undecodable(el) ==
    \/ el.answer.rc # "SR_OK"
    \/ el.key = "SR_CONF_PATTERN_MODE" /\ el.answer.shape # "as"
    \/ el.key = "SR_CONF_LIMIT_SAMPLES" /\ el.answer.shape # "at"
    \/ el.key = "SR_CONF_SAMPLERATE"
        /\ el.answer.shape \notin {"samplerates", "samplerate-steps"}

\* C19: config_options answers Err exactly for a null enumeration; otherwise
\* it answers Ok with one descriptor per element of a known key, in the
\* enumeration's order, none for an unknown key, and a key whose possible
\* values cannot be decoded has its descriptor with the empty value.
C19_OptionsPerRecognizedKey ==
    optResult # NoOptions =>
        /\ optResult.result = "Err" <=> optArr.ptr = NullPtr
        /\ optResult.result = "Ok" <=> optArr.ptr # NullPtr
        /\ Len(optResult.list) = Len(KnownElements)
        /\ \A i \in 1..Len(KnownElements) :
            /\ optResult.list[i].key = KnownElements[i].key
            /\ optResult.list[i].name # "None"
            /\ Undecodable(KnownElements[i]) =>
                optResult.list[i].value = EmptyValueOf(KnownElements[i].key)

C19_Witness ==
    /\ optResult.result = "Ok"
    /\ Len(optArr.keys) = 2
    /\ optArr.keys[1].key = "SR_CONF_OTHER"
    /\ optArr.keys[2] =
        [key |-> "SR_CONF_LIMIT_SAMPLES", list |-> TRUE,
         answer |-> [rc |-> "SR_OK", shape |-> "as"]]
    /\ Len(optResult.list) = 1
    /\ optResult.list[1].value = "empty"

\* An element of a known key with the LIST capability whose list call left
\* the result container null.
NullContainer(el) == el.key \in KnownKeys /\ el.list /\ el.answer.shape = NullPtr

\* C20 as claimed: a list call that yields a null container makes the query
\* answer the generic error.
C20_NullContainerIsError ==
    (optResult # NoOptions /\ optArr.ptr # NullPtr
        /\ \E i \in 1..Len(optArr.keys) : NullContainer(optArr.keys[i]))
    => optResult.result = "Err"

\* C20 as amended: a list call that yields a null container is no error of
\* the query: config_options answers Ok and the key's descriptor holds the
\* empty value of its option type.
C20_NullContainerIsEmptyValue ==
    (optResult # NoOptions /\ optArr.ptr # NullPtr) =>
        /\ optResult.result = "Ok"
        /\ Len(optResult.list) = Len(KnownElements)
        /\ \A i \in 1..Len(KnownElements) :
            NullContainer(KnownElements[i]) =>
                optResult.list[i].value = EmptyValueOf(KnownElements[i].key)

C20_Witness ==
    /\ optResult.result = "Ok"
    /\ Len(optArr.keys) = 1
    /\ optArr.keys[1] =
        [key |-> "SR_CONF_SAMPLERATE", list |-> TRUE,
         answer |-> [rc |-> "SR_ERR", shape |-> NullPtr]]
    /\ optResult.list[1].value = "Unknown"

\* ------------------------------------------------------ sample rate claims
\* The list call gave a dictionary: the listing was obtained.
RatesObtained == rateIn.list /\ rateIn.rc = "SR_OK" /\ rateIn.container.kind = "dict"
\* The dictionary has a "samplerates" entry, and one that holds rates.
HasRates == RatesObtained /\ rateIn.container.samplerates.present
RatesDecode == HasRates /\ rateIn.container.samplerates.values # <<>>
\* The dictionary has a "samplerate-steps" entry and no "samplerates" entry,
\* and one that holds low, high and step.
HasOnlySteps ==
    RatesObtained /\ ~rateIn.container.samplerates.present
        /\ rateIn.container.steps.present
StepsDecode == HasOnlySteps /\ Len(rateIn.container.steps.values) >= 3

\* C21: the sample rates of a device decode to one of three descriptors and
\* never to an error or to nothing: the fixed list, with the rates of the
\* "samplerates" entry in order, when that entry is there and decodes; the
\* range of the low, high and step of the "samplerate-steps" entry when only
\* that entry is there and decodes; Unknown in every other case, that is when
\* neither entry is there, or the listing is not obtained or does not decode.
C21_SampleRateThreeOutcomes ==
    rateOut # NoRate =>
        /\ rateOut.some
        /\ rateOut.kind \in {"Fixed", "Range", "Unknown"}
        /\ RatesDecode <=> rateOut.kind = "Fixed"
        /\ StepsDecode <=> rateOut.kind = "Range"
        /\ rateOut.kind = "Fixed" => rateOut.values = rateIn.container.samplerates.values
        /\ rateOut.kind = "Range" =>
            rateOut.values = SubSeq(rateIn.container.steps.values, 1, 3)
        /\ rateOut.kind = "Unknown" => rateOut.values = <<>>
        /\ (~RatesObtained \/ (~HasRates /\ ~HasOnlySteps)) => rateOut.kind = "Unknown"

C21_Witness ==
    /\ rateOut.kind = "Fixed"
    /\ rateOut.values = <<2, 1>>
    /\ rateIn.container.steps = [present |-> TRUE, values |-> <<1, 2, 1>>]

\* ------------------------------------------------------ round trip claims
\* The value types of the claim: the floating-point ones apart.
RoundTripTypes == {"bool", "u64", "i32", "str", "range_u64", "ratio", "mq"}

\* C22: a config_get of a key whose last successful config_set was of a value
\* of one of these types, on a device that stores the encoded value and hands
\* it back, answers either Ok with a value equal to the one set or an error
\* with no value: never another value.
C22_SetThenGetRoundTrip ==
    (cfgLast.op = "get" /\ cfgLast.type \in RoundTripTypes
        /\ cfgStored.type = cfgLast.type) =>
        \/ cfgLast.result = "Ok" /\ cfgLast.got = cfgStored
        \/ cfgLast.result # "Ok" /\ cfgLast.got = NoValue

C22_Witness ==
    /\ cfgLast.op = "get"
    /\ cfgLast.type = "ratio"
    /\ cfgLast.result = "Ok"
    /\ cfgStored = [type |-> "ratio", value |-> <<1, 2>>]
    /\ cfgVariant.type = "(tt)"
    /\ cfgLast.got.value = <<1, 2>>

\* ------------------------------------------------------- start time claims
\* C23 as claimed: whatever the two fields of the native timestamp hold, the
\* start time of the Header event is seconds + microseconds / 1_000_000 to
\* the nanosecond: the whole seconds of both, and the remaining microseconds
\* as nanoseconds; the marshaller makes it without failing.
C23_StartTimeIsExact ==
    hdrOut # NoTime =>
        /\ ~hdrOut.panic
        /\ hdrOut.secs = hdrIn.tv_sec + (hdrIn.tv_usec \div 1000000)
        /\ hdrOut.nanos = (hdrIn.tv_usec % 1000000) * 1000

\* ------------------------------------------------- transient view claims
\* C24: however many packets the datafeed callback was handed, no driver
\* cleanup ran and the driver of the session's devices is still marked
\* initialized with its one DriverContext alive, so that a Driver::init on it
\* panics as "already initialized" whatever the native layer would answer.
C24_PacketsLeaveDriverContext ==
    \A d \in InstDrivers :
        /\ DrvCallsOf("cleanup", d) = <<>>
        /\ drvContext[d] # NullPtr
        /\ drvLive[d] = 1
        /\ \A rc \in NativeCodes : Driver_init(drvContext[d], rc).panic

C24_Witness ==
    /\ Len(delivered) >= 3
    /\ pc = "returned"
    /\ result = "Ok"
    /\ drvContext["demo"] = "drv_context"

\* ------------------------------------------------------ termination claims
\* The run registered its datafeed callback with the session.
Registered ==
    \E i \in 1..Len(calls) :
        calls[i] = Call("sr_session_datafeed_callback_add", "SR_OK")
\* Something that ends the run has happened inside the loop: the acquisition
\* ended by itself, or the cancellation was sent.
EndingBegun == pc = "c_running" /\ (acq = "ended" \/ cancelVal)

\* The run that is inside its event loop and whose acquisition ended or was
\* cancelled eventually returns, the loop quit and the callback removal
\* called.
LoopRunsReturn ==
    EndingBegun ~>
        (pc = "returned" /\ loopQuit /\ Called("sr_session_datafeed_callback_remove_all"))

\* C25 as claimed: every start_with_cancel run, in whatever order cancellation,
\* natural completion and the drop of the cancellation sender come, ends by
\* quitting its event loop, removing the datafeed callback registration and
\* returning: a run in its loop whose end has begun eventually returns, and no
\* run that registered the callback returns without having quit the loop and
\* called the removal.
C25_EveryRunQuitsRemovesReturns ==
    /\ LoopRunsReturn
    /\ [](( mode = "cancel" /\ pc = "returned" /\ Registered) =>
            (loopQuit /\ Called("sr_session_datafeed_callback_remove_all")))

\* -------------------------------------------------- null Triggers claims
\* Some stage of the native trigger, at whatever position, holds a match.
SomeStageHasMatch(native) == \E i \in 1..Len(native) : native[i] # <<>>

\* C26 as claimed: Triggers::new answers the null Triggers value only when no
\* stage holds a match; when a stage at any position holds one, the value is
\* the native trigger that was built, kept with all its stages and matches.
C26_NullOnlyWithoutAnyMatch ==
    (trigPc # "init" /\ trigNew.result = "Ok" /\ SomeStageHasMatch(trigNew.native)) =>
        /\ trigNew.value = trigPtr
        /\ \A i \in 1..Len(trigNew.calls) : trigNew.calls[i].call # "sr_trigger_free"

\* ------------------------------------------- dropped sender, biased select
\* The holder dropped the cancellation sender without sending on it.
SenderDroppedUnsent == mode = "cancel" /\ cancelTx = "dropped"

\* C27: a cancellation sender dropped without a signal causes no native stop
\* request; the task that saw the drop keeps waiting, the loop is quit only
\* after the native "stopped" notification, and the call then returns what the
\* callback removal answers.
C27_DroppedSenderStopsNothing ==
    SenderDroppedUnsent =>
        /\ stopCalls = 0 /\ ~stopRequested /\ ~Called("sr_session_stop")
        /\ (taskBranch = "cancel_dropped" /\ ~Called("stopped")) =>
            (task = "await_end" /\ ~loopQuit /\ pc = "c_running")
        /\ loopQuit => Before("stopped", "quit")
        /\ (pc = "returned" /\ loopQuit) =>
            /\ calls[Len(calls)].call = "sr_session_datafeed_callback_remove_all"
            /\ result = SigrokError_from(calls[Len(calls)].rc)

C27_Witness ==
    /\ SenderDroppedUnsent /\ taskBranch = "cancel_dropped"
    /\ pc = "returned" /\ result = "Ok"

\* C28: a poll of the task's select that finds both the natural-completion
\* value and the cancellation value takes the end arm: the loop is quit in
\* that poll and no stop request is made, then or later.
C28_CompletionBeforeCancellation ==
    /\ [][(task = "select" /\ task' # "select" /\ endVal /\ cancelVal) =>
            /\ taskBranch' = "end"
            /\ loopQuit'
            /\ stopCalls' = stopCalls
            /\ ~stopRequested'
            /\ calls' = Append(calls, Call("quit", "-"))]_vars
    /\ []((CompletedFirst /\ cancelVal) =>
            (stopCalls = 0 /\ ~stopRequested /\ ~Called("sr_session_stop")))

C28_Witness ==
    /\ CompletedFirst /\ cancelVal /\ sendResult.res = "Ok"
    /\ loopQuit /\ stopCalls = 0

\* -------------------------------------------- the stopped-callback context
\* C29 as claimed: once start_with_cancel has returned, the native session
\* holds no stopped-callback whose context is that call's completion sender
\* slot; and wherever the native layer may call the stopped-callback, inside
\* the run loop, the slot it points to is alive.
C29_NoStoppedCallbackAfterReturn ==
    /\ (mode = "cancel" /\ pc = "returned" /\ sess = "live") => stoppedCb # "quit_loop"
    /\ (InRunLoop /\ stoppedCb = "quit_loop") => endSlot \in {"some", "taken"}

\* ------------------------------------------------- freeing native triggers
\* The sr_trigger_free calls Triggers::new made itself.
FreesInNew == SelectSeq(trigNew.calls, LAMBDA c : c.call = "sr_trigger_free")
\* Triggers::new got a native trigger from sr_trigger_new.
Allocated == trigPc # "init" /\ trigPtr # NullPtr

\* C30: a native trigger allocated by Triggers::new is freed exactly once: one
\* that degrades to the null Triggers value inside new, before new returns;
\* one that is kept, once, by the drop of the Triggers value. Dropping a null
\* Triggers value calls no native free, and nothing is freed that was not
\* allocated.
C30_TriggerFreedExactlyOnce ==
    /\ ~Allocated => (FreesInNew = <<>> /\ trigFreed = <<>>)
    /\ (Allocated /\ trigNew.value = NullPtr) =>
        (Len(FreesInNew) = 1 /\ trigFreed = <<>>)
    /\ (Allocated /\ trigNew.value # NullPtr) =>
        /\ FreesInNew = <<>>
        /\ trigPc # "dropped" => trigFreed = <<>>
        /\ trigPc = "dropped" =>
            trigFreed = <<[call |-> "sr_trigger_free", arg |-> trigPtr]>>

C30_Witness ==
    /\ trigPc = "dropped" /\ trigNew.value = trigPtr /\ trigInstall.result = "Ok"
    /\ Len(trigFreed) = 1

====
